---- MODULE Spec2Model ----
(***************************************************************************)
(* RPC System Calls: client stubs (client.c), wire helpers (util.c) and    *)
(* the forking server with its call handlers (server.c).                   *)
(*                                                                         *)
(* A connection is a pair of ordered frame streams.  A frame is the        *)
(* payload announced by one length prefix; the streams carry bytes only,   *)
(* the fields tag and call of a frame are history used by the properties.  *)
(***************************************************************************)
EXTENDS Integers, Sequences, FiniteSets, TLC

\* ---------------------------------------------------------------- bounds
MaxCalls == 3        \* stub calls made in one run, over all connections
MaxCount == 2        \* largest count / buffer length a caller passes
MaxAcceptFail == 1   \* accept() calls of the listener that return -1
MaxSteps == 4        \* calls made on the descriptor genChecksum is applied to
MaxElves == 3        \* elf threads of the Santa program
MaxReindeer == 2     \* reindeer threads of the Santa program
MaxDeliveries == 2   \* deliveries before Santa retires
MaxInput == 3        \* bytes of an input of compress
\* the size of the user program's copy buffer (1024 in client.h), scaled to
\* the files of the scope
USER_BUFFER_SIZE == 2

\* ------------------------------------------------------- program constants
OPEN_CALL == 1
CLOSE_CALL == 2
READ_CALL == 3
WRITE_CALL == 4
LSEEK_CALL == 5
CHECKSUM_CALL == 6

RP_SUCCESS == 0
CONNECTION_CLOSED == -50
SERVER_CALL_TYPE_READ_ERROR == -200
SERVER_INVALID_CALL_TYPE == -201
SERVER_ERROR_SENDING_RPC_RESULT == -801
SERVER_ERROR_SENDING_RPC_ERRNO == -802
CLIENT_ERROR_SENDING_RPC_ARGS == -803
CLIENT_ERROR_RECIEVING_RPC_RESULT == -804
CLIENT_ERROR_RECIEVING_RPC_ERRNO == -805

\* values of the operating system the calls run on (Linux <fcntl.h>, <unistd.h>)
O_RDONLY == 0
O_WRONLY == 1
O_RDWR == 2
O_CREAT == 64
SEEK_SET == 0
SEEK_CUR == 1
SEEK_END == 2
\* <errno.h> values the modelled calls fail with
Errno == [ENOENT |-> 2, EBADF |-> 9, EINVAL |-> 22, EPIPE |-> 32]
\* write() on a connection the peer has closed raises SIGPIPE, which the server
\* leaves at its default action: the process is killed
SIGPIPE == 13
CHECKSUM_BLOCK_SIZE == 2

\* ------------------------------------------------------------- the scope
Conns == {"c1", "c2"}
Byte == {255}                     \* bytes callers put in write buffers
Indeterminate == {0, 255}            \* a byte read outside an object
\* path names as C strings with their terminator: "d" holds "hi", "n" names no file
PathData == <<100, 0>>
PathNone == <<110, 0>>
Paths == {PathData, PathNone}
NoFile == <<-1>>                     \* a path that names no file
Files0 == [p \in Paths |-> IF p = PathData THEN <<104, 105>> ELSE NoFile]
OpenFlags == {O_RDWR, O_RDWR + O_CREAT}
Modes == {420}                       \* 0644, the mode a caller passes with O_CREAT
FdArgs == {3, 5}                     \* descriptor numbers a caller names
\* descriptors free in a worker: 0-2 are the standard streams, 3 was the
\* listening socket (closed by the child), 4 is the connection
WorkerFds == {3} \cup 5..(5 + MaxCalls)
Offsets == {-1, 1}
Whences == {SEEK_SET, SEEK_CUR, SEEK_END}
BlockSizes == {1, 2}
RawCodes == {0, 7}                   \* call codes no stub sends

Min(a, b) == IF a < b THEN a ELSE b

RECURSIVE SeqsUpTo(_, _)
SeqsUpTo(S, n) ==
    IF n = 0 THEN {<<>>}
    ELSE LET prev == SeqsUpTo(S, n - 1)
         IN  prev \cup {Append(s, x) : s \in {t \in prev : Len(t) = n - 1}, x \in S}

Buffers == SeqsUpTo(Byte, MaxCount)
Zeros(n) == [i \in 1..n |-> 0]

\* ------------------------------------------------------------ wire codec
\* A 32-bit object is written as the int32_t value of its bit pattern, so a
\* uint32_t above INT32_MAX and the negative int32_t of the same bits are one
\* value; 16-bit objects are written as uint16_t (U16) or int16_t (S16).
U16(v) == v % 65536
S16(u) == IF u >= 32768 THEN u - 65536 ELSE u

\* htonl / htons and the write of the converted object: the bytes on the wire
htonl(v) ==
    LET w == IF v < 0 THEN (v + 2147483647) + 1 ELSE v
    IN  << (IF v < 0 THEN 128 ELSE 0) + (w \div 16777216), (w \div 65536) % 256,
           (w \div 256) % 256, w % 256 >>
htons(u) == << u \div 256, u % 256 >>
\* ntohl / ntohs of the object at the start of a received buffer
ntohl(b) ==
    LET w == (b[1] % 128) * 16777216 + b[2] * 65536 + b[3] * 256 + b[4]
    IN  IF b[1] >= 128 THEN (w - 2147483647) - 1 ELSE w
ntohs(b) == b[1] * 256 + b[2]

\* the first n bytes at the address of a received payload: the payload, and
\* past its end whatever the allocator left there
Object(bytes, n, pad) ==
    [i \in 1..n |-> IF i <= Len(bytes) THEN bytes[i] ELSE pad[i]]
Pads == [1..4 -> Indeterminate]
ZeroPad == [i \in 1..4 |-> 0]

Frame(bytes, tag, k) == [bytes |-> bytes, tag |-> tag, call |-> k]

\* read_from_connection on a stream that holds a frame or is at end of file:
\* a zero-byte read at the length prefix, and a zero-byte read of the payload
\* (length prefix 0), both return NULL with errno = CONNECTION_CLOSED
read_from_connection(s) ==
    IF s = <<>>
    THEN [ok |-> FALSE, bytes |-> <<>>, rest |-> s, prefix |-> FALSE]
    ELSE IF Len(Head(s).bytes) = 0
         THEN [ok |-> FALSE, bytes |-> <<>>, rest |-> Tail(s), prefix |-> TRUE]
         ELSE [ok |-> TRUE, bytes |-> Head(s).bytes, rest |-> Tail(s), prefix |-> TRUE]

\* read_data_of_type: value of the object at the start of the payload
\* an int32_t read with its sign bit dropped
INT32_NoSign(bytes, pad) ==
    ntohl([i \in 1..4 |-> IF i = 1 THEN Object(bytes, 4, pad)[1] % 128
                          ELSE Object(bytes, 4, pad)[i]])
INT32(bytes, pad) == ntohl(Object(bytes, 4, pad))
UINT32(bytes, pad) == ntohl(Object(bytes, 4, pad))
INT16_Unsigned(bytes, pad) == ntohs(Object(bytes, 2, pad))
INT16(bytes, pad) == S16(ntohs(Object(bytes, 2, pad)))

\* send_data_of_type: the payload of the frame it sends
send_INT32(v) == htonl(v)
send_INT16(v) == htons(U16(v))

\* ------------------------------------------- the file system of the server
\* One descriptor-table entry of a worker; the table itself is private to the
\* worker (fork), the files are those of the server's host.
Closed == [open |-> FALSE, path |-> <<>>, pos |-> 0, acc |-> 0]
Tab0 == [f \in WorkerFds |-> Closed]
IsOpen(tab, fd) == fd \in WorkerFds /\ tab[fd].open
HasBit(flags, bit) == (flags \div bit) % 2 = 1
Max(a, b) == IF a > b THEN a ELSE b

RECURSIVE Xor(_, _)
Xor(a, b) ==
    IF a = 0 THEN b
    ELSE IF b = 0 THEN a
    ELSE ((a + b) % 2) + (2 * Xor(a \div 2, b \div 2))

RECURSIVE XorAll(_, _)
XorAll(acc, bytes) ==
    IF bytes = <<>> THEN acc ELSE XorAll(Xor(acc, Head(bytes)), Tail(bytes))

LowestFree(tab) ==
    CHOOSE f \in WorkerFds : ~tab[f].open /\ \A g \in WorkerFds : g < f => tab[g].open

\* open(2)
sys_open(tab, files, path, flags, mode) ==
    IF path \notin DOMAIN files \/ (files[path] = NoFile /\ ~HasBit(flags, O_CREAT))
    THEN [res |-> -1, err |-> Errno.ENOENT, tab |-> tab, files |-> files]
    ELSE LET fd == LowestFree(tab)
         IN  [res |-> fd, err |-> 0,
              tab |-> [tab EXCEPT ![fd] = [open |-> TRUE, path |-> path, pos |-> 0,
                                           acc |-> flags % 4]],
              files |-> IF files[path] = NoFile
                        THEN [files EXCEPT ![path] = <<>>] ELSE files]

\* close(2)
sys_close(tab, fd) ==
    IF IsOpen(tab, fd)
    THEN [res |-> 0, err |-> 0, tab |-> [tab EXCEPT ![fd] = Closed]]
    ELSE [res |-> -1, err |-> Errno.EBADF, tab |-> tab]

\* read(2): at most count bytes from the cursor, which advances past them
sys_read(tab, files, fd, count) ==
    IF ~IsOpen(tab, fd) \/ tab[fd].acc = O_WRONLY
    THEN [res |-> -1, err |-> Errno.EBADF, tab |-> tab, data |-> <<>>]
    ELSE LET e == tab[fd]
             n == Min(count, Max(0, Len(files[e.path]) - e.pos))
         IN  [res |-> n, err |-> 0,
              tab |-> [tab EXCEPT ![fd].pos = e.pos + n],
              data |-> SubSeq(files[e.path], e.pos + 1, e.pos + n)]

\* write(2): count bytes of buf at the cursor; a gap past the end reads as 0
sys_write(tab, files, fd, buf, count) ==
    IF ~IsOpen(tab, fd) \/ tab[fd].acc = O_RDONLY
    THEN [res |-> -1, err |-> Errno.EBADF, tab |-> tab, files |-> files]
    ELSE LET e == tab[fd]
             old == files[e.path]
             new == [i \in 1..Max(Len(old), e.pos + count) |->
                        IF i > e.pos /\ i <= e.pos + count
                        THEN (IF i - e.pos <= Len(buf) THEN buf[i - e.pos] ELSE 0)
                        ELSE IF i <= Len(old) THEN old[i] ELSE 0]
         IN  [res |-> count, err |-> 0,
              tab |-> [tab EXCEPT ![fd].pos = e.pos + count],
              files |-> [files EXCEPT ![e.path] = new]]

\* lseek(2)
sys_lseek(tab, files, fd, offset, whence) ==
    IF ~IsOpen(tab, fd)
    THEN [res |-> -1, err |-> Errno.EBADF, tab |-> tab]
    ELSE IF whence \notin {SEEK_SET, SEEK_CUR, SEEK_END}
    THEN [res |-> -1, err |-> Errno.EINVAL, tab |-> tab]
    ELSE LET e == tab[fd]
             base == IF whence = SEEK_SET THEN 0
                     ELSE IF whence = SEEK_CUR THEN e.pos ELSE Len(files[e.path])
         IN  IF base + offset < 0
             THEN [res |-> -1, err |-> Errno.EINVAL, tab |-> tab]
             ELSE [res |-> base + offset, err |-> 0,
                   tab |-> [tab EXCEPT ![fd].pos = base + offset]]

\* the inner loop of genChecksum over a buffer of char: bytes above 127 are
\* sign-extended before the XOR
Accumulate_SignedBytes(checksum, data) ==
    XorAll(checksum, [i \in 1..Len(data) |->
                         IF data[i] >= 128 THEN data[i] + 65280 ELSE data[i]])

\* the inner loop of genChecksum: checksum ^= buffer[i] over uint8_t buffer[]
Accumulate(checksum, data) == XorAll(checksum, data)

\* the read loop of genChecksum taking only the first byte of each block
RECURSIVE ChecksumLoop_FirstByte(_, _, _, _, _)
ChecksumLoop_FirstByte(tab, files, fd, block_size, checksum) ==
    LET r == sys_read(tab, files, fd, block_size)
    IN  IF r.res > 0
        THEN ChecksumLoop_FirstByte(r.tab, files, fd, block_size,
                                    Accumulate(checksum, <<r.data[1]>>))
        ELSE [bytes_read |-> r.res, checksum |-> checksum, err |-> r.err, tab |-> r.tab]

\* the read loop of genChecksum
RECURSIVE ChecksumLoop(_, _, _, _, _)
ChecksumLoop(tab, files, fd, block_size, checksum) ==
    LET r == sys_read(tab, files, fd, block_size)
    IN  IF r.res > 0
        THEN ChecksumLoop(r.tab, files, fd, block_size, Accumulate(checksum, r.data))
        ELSE [bytes_read |-> r.res, checksum |-> checksum, err |-> r.err, tab |-> r.tab]

\* genChecksum without its last lseek: the cursor stays at the end of the file
genChecksum_NoRewind(tab, files, fd, block_size) ==
    LET s1 == sys_lseek(tab, files, fd, 0, SEEK_SET)
    IN  IF s1.res < 0 THEN [res |-> -1, err |-> s1.err, tab |-> s1.tab]
        ELSE LET l == ChecksumLoop(s1.tab, files, fd, block_size, 0)
             IN  IF l.bytes_read = -1 THEN [res |-> -1, err |-> l.err, tab |-> l.tab]
                 ELSE [res |-> S16(U16(l.checksum)), err |-> 0, tab |-> l.tab]

\* genChecksum without its first lseek: the loop starts at the cursor
genChecksum_FromCursor(tab, files, fd, block_size) ==
    LET l == ChecksumLoop(tab, files, fd, block_size, 0)
    IN  IF l.bytes_read = -1 THEN [res |-> -1, err |-> l.err, tab |-> l.tab]
        ELSE LET s2 == sys_lseek(l.tab, files, fd, 0, SEEK_SET)
             IN  IF s2.res < 0 THEN [res |-> -1, err |-> s2.err, tab |-> s2.tab]
                 ELSE [res |-> S16(U16(l.checksum)), err |-> 0, tab |-> s2.tab]

genChecksum(tab, files, fd, block_size) ==
    LET s1 == sys_lseek(tab, files, fd, 0, SEEK_SET)
    IN  IF s1.res < 0 THEN [res |-> -1, err |-> s1.err, tab |-> s1.tab]
        ELSE LET l == ChecksumLoop(s1.tab, files, fd, block_size, 0)
             IN  IF l.bytes_read = -1 THEN [res |-> -1, err |-> l.err, tab |-> l.tab]
                 ELSE LET s2 == sys_lseek(l.tab, files, fd, 0, SEEK_SET)
                      IN  IF s2.res < 0 THEN [res |-> -1, err |-> s2.err, tab |-> s2.tab]
                          ELSE [res |-> S16(U16(l.checksum)), err |-> 0, tab |-> s2.tab]

\* ---------------------------------------------------------- call handlers
\* The argument frames a handler reads, in order, up to the first read that
\* returns NULL.  fail: "none", "closed" (read_from_connection returned NULL)
\* or "blocked" (the stream is empty and the peer has not closed).
RECURSIVE ReadArgs(_, _, _)
ReadArgs(s, n, eof) ==
    IF n = 0 THEN [got |-> <<>>, rest |-> s, fail |-> "none"]
    ELSE IF s = <<>> /\ ~eof THEN [got |-> <<>>, rest |-> s, fail |-> "blocked"]
    ELSE LET r == read_from_connection(s)
         IN  IF ~r.ok THEN [got |-> <<>>, rest |-> r.rest, fail |-> "closed"]
             ELSE LET more == ReadArgs(r.rest, n - 1, eof)
                  IN  [got |-> <<r.bytes>> \o more.got, rest |-> more.rest,
                       fail |-> more.fail]

\* a handler's early return -1 after a failed argument read
ArgsFailed(a, tab, files) ==
    [blocked |-> a.fail = "blocked", status |-> -1, werr |-> CONNECTION_CLOSED,
     rest |-> a.rest, reply |-> <<>>, tab |-> tab, files |-> files, res |-> 0,
     err |-> 0, data |-> <<>>]

\* a handler's return RP_SUCCESS after its reply was sent
Served(rest, reply, tab, files, res, err) ==
    [blocked |-> FALSE, status |-> RP_SUCCESS, werr |-> err,
     rest |-> rest, reply |-> reply, tab |-> tab, files |-> files, res |-> res,
     err |-> err, data |-> IF Len(reply) > 1 /\ reply[2].tag = "data"
                           THEN reply[2].bytes ELSE <<>>]

\* ErrnoFrame with the test written 'result <= 0': an errno frame also after 0
ErrnoFrame_NotPositive(res, err, k) ==
    IF res <= 0 THEN <<Frame(send_INT32(err), "errno", k)>> ELSE <<>>

\* the errno frame a handler sends after a result of -1
ErrnoFrame(res, err, k) ==
    IF res = -1 THEN <<Frame(send_INT32(err), "errno", k)>> ELSE <<>>

handle_open(s, eof, tab, files, pad, k) ==
    LET a == ReadArgs(s, 2, eof)
    IN  IF a.fail # "none" THEN ArgsFailed(a, tab, files)
        ELSE LET flags == UINT32(a.got[2], pad)
                 m == ReadArgs(a.rest, IF HasBit(flags, O_CREAT) THEN 1 ELSE 0, eof)
             IN  IF m.fail # "none" THEN ArgsFailed(m, tab, files)
                 ELSE LET pathname == a.got[1]
                          mode == IF m.got = <<>> THEN 0 ELSE UINT32(m.got[1], pad)
                          r == sys_open(tab, files, pathname, flags, mode)
                      IN  Served(m.rest,
                                 <<Frame(send_INT32(r.res), "result", k)>>
                                     \o ErrnoFrame(r.res, r.err, k),
                                 r.tab, r.files, r.res, r.err)

handle_close(s, eof, tab, files, pad, k) ==
    LET a == ReadArgs(s, 1, eof)
    IN  IF a.fail # "none" THEN ArgsFailed(a, tab, files)
        ELSE LET r == sys_close(tab, UINT32(a.got[1], pad))
             IN  Served(a.rest,
                        <<Frame(send_INT32(r.res), "result", k)>>
                            \o ErrnoFrame(r.res, r.err, k),
                        r.tab, files, r.res, r.err)

handle_read(s, eof, tab, files, pad, k) ==
    LET a == ReadArgs(s, 3, eof)
    IN  IF a.fail # "none" THEN ArgsFailed(a, tab, files)
        ELSE LET r == sys_read(tab, files, UINT32(a.got[1], pad), UINT32(a.got[3], pad))
                 data_read == r.res
             IN  Served(a.rest,
                        <<Frame(send_INT32(data_read), "result", k)>>
                            \o (IF data_read > 0
                                THEN <<Frame(r.data, "data", k)>> ELSE <<>>)
                            \o ErrnoFrame(data_read, r.err, k),
                        r.tab, files, data_read, r.err)

handle_write(s, eof, tab, files, pad, k) ==
    LET a == ReadArgs(s, 3, eof)
    IN  IF a.fail # "none" THEN ArgsFailed(a, tab, files)
        ELSE LET buffer == a.got[2]
                 r == sys_write(tab, files, UINT32(a.got[1], pad), buffer,
                                UINT32(a.got[3], pad))
                 data_wrote == r.res
             IN  Served(a.rest,
                        <<Frame(send_INT32(data_wrote), "result", k)>>
                            \o (IF data_wrote > 0
                                THEN <<Frame(SubSeq(buffer, 1, data_wrote), "data", k)>>
                                ELSE <<>>)
                            \o ErrnoFrame(data_wrote, r.err, k),
                        r.tab, r.files, data_wrote, r.err)

handle_lseek(s, eof, tab, files, pad, k) ==
    LET a == ReadArgs(s, 3, eof)
    IN  IF a.fail # "none" THEN ArgsFailed(a, tab, files)
        ELSE LET r == sys_lseek(tab, files, UINT32(a.got[1], pad),
                                INT32(a.got[2], pad), UINT32(a.got[3], pad))
                 result == r.res
             IN  Served(a.rest,
                        <<Frame(send_INT32(result), "result", k)>>
                            \o ErrnoFrame(result, r.err, k),
                        r.tab, files, result, r.err)

handle_checksum(s, eof, tab, files, pad, k) ==
    LET a == ReadArgs(s, 2, eof)
    IN  IF a.fail # "none" THEN ArgsFailed(a, tab, files)
        ELSE LET r == genChecksum(tab, files, UINT32(a.got[1], pad),
                                  UINT32(a.got[2], pad))
                 checksum == r.res
             IN  Served(a.rest,
                        <<Frame(send_INT16(checksum), "result", k)>>
                            \o ErrnoFrame(checksum, r.err, k),
                        r.tab, files, checksum, r.err)

\* ------------------------------------------------------------ client stubs
\* recieve_result, update_errno and the tail of the stub, on the stream s of
\* frames from the server.  type is "INT32" or "INT16"; hi is the content of
\* the two bytes after the caller's int16_t that the 4-byte memcpy reads.
\* blocked: a read finds the stream empty and the worker still holds it.
NoReply(blocked, status, value, err, rest) ==
    [blocked |-> blocked, status |-> status, value |-> value, err |-> err,
     seterr |-> ~blocked, rest |-> rest]

update_errno(s, eof, pad) ==
    IF s = <<>> /\ ~eof THEN [blocked |-> TRUE, ok |-> FALSE, err |-> 0, rest |-> s]
    ELSE LET r == read_from_connection(s)
         IN  [blocked |-> FALSE, ok |-> r.ok,
              err |-> IF r.ok THEN (ntohl(Object(r.bytes, 4, pad))) ELSE 0,
              rest |-> r.rest]

recieve_result(s, eof, type, pad, hi) ==
    IF s = <<>> /\ ~eof THEN NoReply(TRUE, -1, 0, 0, s)
    ELSE LET r == read_from_connection(s)
         IN  IF ~r.ok THEN NoReply(FALSE, -1, 0, CLIENT_ERROR_RECIEVING_RPC_RESULT, r.rest)
             ELSE LET value == IF type = "INT16" THEN INT16(r.bytes, pad)
                               ELSE INT32(r.bytes, pad)
                      result == IF type = "INT16"
                                THEN S16(hi) * 65536 + U16(value)
                                ELSE value
                  IN  IF result = -1
                      THEN LET e == update_errno(r.rest, eof, pad)
                           IN  IF e.blocked THEN NoReply(TRUE, -1, 0, 0, s)
                               ELSE IF ~e.ok
                               THEN NoReply(FALSE, -1, value,
                                            CLIENT_ERROR_RECIEVING_RPC_ERRNO, e.rest)
                               ELSE [blocked |-> FALSE, status |-> 0, value |-> value,
                                     err |-> e.err, seterr |-> TRUE, rest |-> e.rest]
                      ELSE [blocked |-> FALSE, status |-> 0, value |-> value,
                            err |-> 0, seterr |-> FALSE, rest |-> r.rest]

\* the indeterminate bytes a stub return can read: only where a received
\* payload is shorter than the object read from it
PadsFor(s, op) ==
    LET n == IF op = CHECKSUM_CALL THEN 2 ELSE 4
    IN  IF s = <<>> \/ Len(s[1].bytes) = 0 THEN {ZeroPad}
        ELSE IF Len(s[1].bytes) < n THEN Pads
        ELSE LET v == IF n = 2 THEN INT16(s[1].bytes, ZeroPad)
                      ELSE INT32(s[1].bytes, ZeroPad)
             IN  IF Len(s) < 2 THEN {ZeroPad}
                 ELSE IF v = -1 /\ Len(s[2].bytes) < 4 THEN Pads
                 ELSE IF op = READ_CALL /\ v > Len(s[2].bytes) THEN Pads
                 ELSE {ZeroPad}
\* the two bytes next to the int16_t checksum of rp_checksum
StackBytes(op) == IF op = CHECKSUM_CALL THEN {0, 65535} ELSE {0}

\* ------------------------------------------------------------------ state
VARIABLES
    listener,   \* the server's parent process: pc "accept" (in its accept loop),
                \* held (connections it holds open), accepted (connections in
                \* the order accept() returned them), failed (accept() = -1)
    held,       \* the connections a worker holds open
    cstate,     \* client of a connection: "idle", "ready", "await", "undefined",
                \* "closed" (in order) or "reset"
    call,       \* the stub call in progress or last made on the connection
    ret,        \* the caller's result variable of the call
    cerrno,     \* the client's errno
    cbuf,       \* the caller's buffer passed to the call
    c2s,        \* frames sent by the client and not yet read by the worker
    s2c,        \* frames sent by the worker and not yet read by the client
    wstate,     \* worker: "none", "running", "exited"
    wstatus,    \* the worker's status variable / exit status
    werrno,     \* the worker's errno
    tab,        \* the worker's descriptor table
    files,      \* the files of the server's host
    ncalls,     \* stub calls made so far
    served,     \* history: what the worker's handler did with the call
    recvd,      \* history: the frames the stub's return consumed for the call
    unit        \* the state of the specifications of single functions: the
                \* byte stream and the two ends of one frame transfer

vars == <<listener, held, cstate, call, ret, cerrno, cbuf, c2s, s2c, wstate, wstatus,
          werrno, tab, files, ncalls, served, recvd, unit>>
\* the variables of the client-server system
rpcvars == <<listener, held, cstate, call, ret, cerrno, cbuf, c2s, s2c, wstate,
             wstatus, werrno, tab, files, ncalls, served, recvd>>

NoCall == [k |-> 0, op |-> 0, fd |-> 0, count |-> 0, flags |-> 0, buf |-> <<>>,
           args |-> <<>>]
NoServed == [k |-> 0, op |-> 0, status |-> 0, res |-> 0, err |-> 0, args |-> <<>>,
             left |-> 0, reply |-> <<>>, data |-> <<>>, n |-> 0, fault |-> "none",
             relayed |-> FALSE]
\* s records a call whose file operation returned -1 and whose handler sent
\* its reply and returned; Relayed: this or an earlier call of the worker did
RelayedFailure(s) == s.k > 0 /\ s.res = -1 /\ s.fault = "none"
Relayed(s) == s.relayed \/ RelayedFailure(s)
NoRecvd == [k |-> 0, frames |-> <<>>, left |-> 0, returned |-> FALSE]

NoUnit == <<>>

\* the parent process at the top of its accept loop, and at the entry of main
Listening ==
    [pc |-> "accept", held |-> {}, accepted |-> <<>>, failed |-> 0, socket |-> "listening",
     status |-> 0, why |-> "running"]
Entered == [Listening EXCEPT !.pc = "start", !.socket = "none"]

InitRPCAt(parent, fs) ==
    /\ listener = parent
    /\ held = [c \in Conns |-> {}]
    /\ cstate = [c \in Conns |-> "idle"]
    /\ call = [c \in Conns |-> NoCall]
    /\ ret = [c \in Conns |-> 0]
    /\ cerrno = [c \in Conns |-> 0]
    /\ cbuf = [c \in Conns |-> <<>>]
    /\ c2s = [c \in Conns |-> <<>>]
    /\ s2c = [c \in Conns |-> <<>>]
    /\ wstate = [c \in Conns |-> "none"]
    /\ wstatus = [c \in Conns |-> RP_SUCCESS]
    /\ werrno = [c \in Conns |-> 0]
    /\ tab = [c \in Conns |-> Tab0]
    /\ files = fs
    /\ ncalls = 0
    /\ served = [c \in Conns |-> NoServed]
    /\ recvd = [c \in Conns |-> NoRecvd]

InitRPCOn(fs) == InitRPCAt(Listening, fs)

InitRPC == InitRPCOn(Files0)

Init == InitRPC /\ unit = NoUnit

Tags(frames) == [i \in 1..Len(frames) |-> [tag |-> frames[i].tag, call |-> frames[i].call]]

\* ---------------------------------------------------------------- client
Connect(c) ==
    /\ cstate[c] = "idle"
    /\ listener.pc = "accept"
    /\ cstate' = [cstate EXCEPT ![c] = "ready"]
    /\ UNCHANGED <<listener, held, call, ret, cerrno, cbuf, c2s, s2c, wstate, wstatus,
                   werrno, tab, files, ncalls, served, recvd>>

rp_connect(c) == Connect(c) /\ UNCHANGED unit

\* the sending half of a stub: the call code and the argument frames args go
\* out, then the stub waits in recieve_result
StubCall(c, op, fd, count, flags, buf, args) ==
    /\ cstate[c] = "ready"
    /\ LET k == call[c].k + 1
           frames == <<Frame(htonl(op), "code", k)>>
                         \o [i \in 1..Len(args) |-> Frame(args[i], "arg", k)]
       IN  /\ call' = [call EXCEPT ![c] = [k |-> k, op |-> op, fd |-> fd,
                          count |-> count, flags |-> flags, buf |-> buf,
                          args |-> args]]
           /\ c2s' = [c2s EXCEPT ![c] = IF wstate[c] = "exited" THEN <<>> ELSE @ \o frames]
    /\ cerrno' = [cerrno EXCEPT ![c] = CLIENT_ERROR_SENDING_RPC_ARGS]
    /\ cstate' = [cstate EXCEPT ![c] = "await"]
    /\ ncalls' = ncalls + 1
    /\ ret' = [ret EXCEPT ![c] = 0]
    /\ cbuf' = [cbuf EXCEPT ![c] = buf]
    /\ served' = [served EXCEPT ![c] = [NoServed EXCEPT !.n = served[c].n,
                                                         !.relayed = Relayed(served[c])]]
    /\ recvd' = [recvd EXCEPT ![c] = NoRecvd]
    /\ UNCHANGED <<listener, held, s2c, wstate, wstatus, werrno, tab, files>>

\* a stub called by a caller that makes at most MaxCalls calls
StubSend(c, op, fd, count, flags, buf, args) ==
    /\ ncalls < MaxCalls
    /\ StubCall(c, op, fd, count, flags, buf, args)
    /\ UNCHANGED unit

rp_open(c) ==
    \E pathname \in Paths, flags \in OpenFlags, mode \in Modes :
        StubSend(c, OPEN_CALL, 0, 0, flags, <<>>,
                 <<pathname, htonl(flags)>>
                     \o (IF HasBit(flags, O_CREAT) THEN <<htonl(mode)>> ELSE <<>>))

rp_close(c) ==
    \E file_fd \in FdArgs :
        StubSend(c, CLOSE_CALL, file_fd, 0, 0, <<>>, <<htonl(file_fd)>>)

rp_read(c) ==
    \E file_fd \in FdArgs, count \in 0..MaxCount :
        StubSend(c, READ_CALL, file_fd, count, 0, Zeros(count),
                 <<htonl(file_fd), Zeros(count), htonl(count)>>)

rp_write(c) ==
    \E file_fd \in FdArgs, buffer \in Buffers :
        StubSend(c, WRITE_CALL, file_fd, Len(buffer), 0, buffer,
                 <<htonl(file_fd), buffer, htonl(Len(buffer))>>)

rp_lseek(c) ==
    \E file_fd \in FdArgs, offset \in Offsets, whence \in Whences :
        StubSend(c, LSEEK_CALL, file_fd, offset, whence, <<>>,
                 <<htonl(file_fd), htonl(offset), htonl(whence)>>)

\* offsets over the whole range of int32_t
SeekOffsets == {-2147483647 - 1, -1, 0, 1, 2147483647}

\* the position lseek would set is one an int32_t holds
FitsInt32(base, offset) == IF offset <= 0 THEN TRUE ELSE base <= 2147483647 - offset

\* rp_lseek with any int32_t offset, by a caller that keeps the position of
\* its descriptors within int32_t
rp_lseek_far(c) ==
    \E file_fd \in FdArgs, offset \in SeekOffsets, whence \in Whences :
        /\ IsOpen(tab[c], file_fd) =>
               /\ FitsInt32(tab[c][file_fd].pos, offset)
               /\ FitsInt32(Len(files[tab[c][file_fd].path]), offset)
        /\ StubSend(c, LSEEK_CALL, file_fd, offset, whence, <<>>,
                    <<htonl(file_fd), htonl(offset), htonl(whence)>>)

rp_checksum(c) ==
    \E file_fd \in FdArgs, block_size \in BlockSizes :
        StubSend(c, CHECKSUM_CALL, file_fd, block_size, 0, <<>>,
                 <<htonl(file_fd), htonl(block_size)>>)

\* the receiving half of a stub, from recieve_result to its return
StubReturn(c) ==
    /\ cstate[c] = "await"
    /\ \E pad \in PadsFor(s2c[c], call[c].op), hi \in StackBytes(call[c].op) :
        LET op == call[c].op
            eof == wstate[c] = "exited"
            rr == recieve_result(s2c[c], eof, IF op = CHECKSUM_CALL THEN "INT16"
                                              ELSE "INT32", pad, hi)
            copy == rr.status = 0 /\ op = READ_CALL /\ rr.value > 0
            d == read_from_connection(rr.rest)
            rest == IF copy THEN d.rest ELSE rr.rest
            undefined == copy /\ (~d.ok \/ rr.value > call[c].count)
        IN  /\ ~rr.blocked
            /\ copy => (rr.rest # <<>> \/ eof)
            /\ s2c' = [s2c EXCEPT ![c] = rest]
            /\ cstate' = [cstate EXCEPT ![c] = IF undefined THEN "undefined" ELSE "ready"]
            /\ ret' = [ret EXCEPT ![c] = IF rr.status = -1 THEN -1 ELSE rr.value]
            /\ cerrno' = [cerrno EXCEPT ![c] = IF rr.seterr THEN rr.err ELSE @]
            /\ cbuf' = [cbuf EXCEPT ![c] =
                          IF copy /\ ~undefined
                          THEN Object(d.bytes, rr.value, pad)
                                   \o SubSeq(@, rr.value + 1, call[c].count)
                          ELSE @]
            /\ recvd' = [recvd EXCEPT ![c] =
                          [k |-> call[c].k,
                           frames |-> Tags(SubSeq(s2c[c], 1, Len(s2c[c]) - Len(rest))),
                           left |-> Len(rest), returned |-> ~undefined]]
    /\ UNCHANGED <<unit, listener, held, call, c2s, wstate, wstatus, werrno, tab, files, ncalls,
                   served>>

\* the user program ends, which closes its socket.  The socket is a TCP stream
\* socket: closed while frames it received are unread, the connection may be
\* reset instead of ending in order, and the peer's read() then returns -1
client_exit(c) ==
    /\ cstate[c] = "ready"
    /\ \E end \in (IF s2c[c] = <<>> THEN {"closed"} ELSE {"closed", "reset"}) :
          cstate' = [cstate EXCEPT ![c] = end]
    /\ call' = [call EXCEPT ![c] = NoCall]
    /\ ret' = [ret EXCEPT ![c] = 0]
    /\ cerrno' = [cerrno EXCEPT ![c] = 0]
    /\ cbuf' = [cbuf EXCEPT ![c] = <<>>]
    /\ recvd' = [recvd EXCEPT ![c] = NoRecvd]
    /\ served' = [served EXCEPT ![c] = [NoServed EXCEPT !.n = served[c].n,
                                                         !.relayed = Relayed(served[c])]]
    /\ s2c' = [s2c EXCEPT ![c] = <<>>]
    /\ UNCHANGED <<unit, listener, held, c2s, wstate, wstatus, werrno, tab, files, ncalls>>

\* the user program is killed while a stub waits for its reply
client_killed(c) ==
    /\ cstate[c] = "await"
    /\ \E end \in (IF s2c[c] = <<>> THEN {"closed"} ELSE {"closed", "reset"}) :
          cstate' = [cstate EXCEPT ![c] = end]
    /\ call' = [call EXCEPT ![c] = NoCall]
    /\ ret' = [ret EXCEPT ![c] = 0]
    /\ cerrno' = [cerrno EXCEPT ![c] = 0]
    /\ cbuf' = [cbuf EXCEPT ![c] = <<>>]
    /\ recvd' = [recvd EXCEPT ![c] = NoRecvd]
    /\ served' = [served EXCEPT ![c] = [NoServed EXCEPT !.n = served[c].n,
                                                         !.relayed = Relayed(served[c])]]
    /\ s2c' = [s2c EXCEPT ![c] = <<>>]
    /\ UNCHANGED <<unit, listener, held, c2s, wstate, wstatus, werrno, tab, files, ncalls>>

\* the user program is killed inside rp_close, after the send of the call code
\* and before the send of the descriptor
rp_close_killed(c) ==
    /\ cstate[c] = "ready"
    /\ ncalls < MaxCalls
    /\ ncalls' = ncalls + 1
    /\ cstate' = [cstate EXCEPT ![c] = "closed"]
    /\ c2s' = [c2s EXCEPT ![c] = IF wstate[c] = "exited" THEN <<>>
                                  ELSE Append(@, Frame(htonl(CLOSE_CALL), "code", 0))]
    /\ call' = [call EXCEPT ![c] = NoCall]
    /\ ret' = [ret EXCEPT ![c] = 0]
    /\ cerrno' = [cerrno EXCEPT ![c] = 0]
    /\ cbuf' = [cbuf EXCEPT ![c] = <<>>]
    /\ recvd' = [recvd EXCEPT ![c] = NoRecvd]
    /\ served' = [served EXCEPT ![c] = [NoServed EXCEPT !.n = served[c].n,
                                                         !.relayed = Relayed(served[c])]]
    /\ s2c' = [s2c EXCEPT ![c] = <<>>]
    /\ UNCHANGED <<unit, listener, held, wstate, wstatus, werrno, tab, files>>

\* ---------------------------------------------------------------- server
\* the parent after fork() without its close(connection_fd)
ParentCloses_None(h, c) == h

\* the parent after fork(): close(connection_fd)
ParentCloses(h, c) == h \ {c}

\* the parent after fork() waiting for the child to end
AfterFork_Wait == "wait"

\* the parent after fork(): continue, back to accept()
AfterFork == "accept"

\* main: accept() returns the connection and fork() gives it a worker with
\* its own copy of the parent's descriptor table, in which the worker closes
\* the listening socket; the parent closes the connection and continues
main_accept(c) ==
    /\ listener.pc = "accept"
    /\ cstate[c] # "idle"
    /\ wstate[c] = "none"
    /\ held' = [held EXCEPT ![c] = listener.held \cup {c}]
    /\ listener' = [listener EXCEPT !.held = ParentCloses(listener.held \cup {c}, c),
                                    !.accepted = Append(@, c),
                                    !.pc = AfterFork]
    /\ wstate' = [wstate EXCEPT ![c] = "running"]
    /\ wstatus' = [wstatus EXCEPT ![c] = RP_SUCCESS]
    /\ tab' = [tab EXCEPT ![c] = Tab0]
    /\ UNCHANGED <<unit, cstate, call, ret, cerrno, cbuf, c2s, s2c, werrno,
                   files, ncalls, served, recvd>>

\* main: accept() returns -1; the error is printed and the loop continues
main_accept_failed ==
    /\ listener.pc = "accept"
    /\ listener.failed < MaxAcceptFail
    /\ listener' = [listener EXCEPT !.failed = @ + 1]
    /\ UNCHANGED <<unit, held, cstate, call, ret, cerrno, cbuf, c2s, s2c, wstate, wstatus,
                   werrno, tab, files, ncalls, served, recvd>>

\* the ways main can fail before its accept loop: the argument count,
\* signal(), and in setupServer socket(), bind() and listen()
StartFaults == {"argc", "signal", "socket", "bind", "listen"}

\* main up to the accept loop: each failure prints its line and returns -1
main_start ==
    /\ listener.pc = "start"
    /\ \E fault \in StartFaults \cup {"none"} :
          listener' = IF fault = "none"
                      THEN [listener EXCEPT !.pc = "accept", !.socket = "listening"]
                      ELSE [listener EXCEPT !.pc = "exited", !.status = -1, !.why = fault,
                                            !.socket = IF fault \in {"bind", "listen"}
                                                       THEN "closed" ELSE "none"]
    /\ UNCHANGED <<unit, held, cstate, call, ret, cerrno, cbuf, c2s, s2c, wstate, wstatus,
                   werrno, tab, files, ncalls, served, recvd>>

\* main: accept() returns the connection and fork() returns -1; the parent
\* closes the connection, leaves the loop with break and returns 0
main_fork_failed(c) ==
    /\ listener.pc = "accept"
    /\ cstate[c] # "idle"
    /\ wstate[c] = "none"
    /\ listener' = [listener EXCEPT !.accepted = Append(@, c), !.pc = "exited",
                                    !.status = 0, !.why = "fork"]
    /\ wstate' = [wstate EXCEPT ![c] = "refused"]
    /\ UNCHANGED <<unit, held, cstate, call, ret, cerrno, cbuf, c2s, s2c, wstatus,
                   werrno, tab, files, ncalls, served, recvd>>

\* the parent after interrupt_handler, had the handler returned to the loop
AfterSigint_Resume == [pc |-> "accept", socket |-> "listening", status |-> 0]

\* the parent after interrupt_handler: close(socket_fd); exit(1)
AfterSigint == [pc |-> "exited", socket |-> "closed", status |-> 1]

\* interrupt_handler in the parent process, in its accept loop
main_interrupted ==
    /\ listener.pc = "accept"
    /\ listener' = [listener EXCEPT !.pc = AfterSigint.pc, !.socket = AfterSigint.socket,
                                    !.status = AfterSigint.status, !.why = "sigint"]
    /\ UNCHANGED <<unit, held, cstate, call, ret, cerrno, cbuf, c2s, s2c, wstate, wstatus,
                   werrno, tab, files, ncalls, served, recvd>>

\* the exit test without its status half
Exits_ClosedOnly(status, errno) == errno = CONNECTION_CLOSED

\* the exit test taking any errno left by the handler for a reason to stop
Exits_AnyErrno(status, errno) == status = -1 \/ errno # 0

\* the exit test at the end of the worker loop
Exits(status, errno) == status = -1 \/ errno = CONNECTION_CLOSED

\* the call type the worker loop reads
CallType(f) == (ntohl(Object(f.bytes, 4, ZeroPad)))

\* the switch of the worker loop on a call type in 1..6
Handler(code, s, eof, t, fs, pad, k) ==
    CASE code = OPEN_CALL -> handle_open(s, eof, t, fs, pad, k)
      [] code = CLOSE_CALL -> handle_close(s, eof, t, fs, pad, k)
      [] code = READ_CALL -> handle_read(s, eof, t, fs, pad, k)
      [] code = WRITE_CALL -> handle_write(s, eof, t, fs, pad, k)
      [] code = LSEEK_CALL -> handle_lseek(s, eof, t, fs, pad, k)
      [] code = CHECKSUM_CALL -> handle_checksum(s, eof, t, fs, pad, k)

\* errno after the send of a reply frame has failed with -1
SendErrno(code, tag) ==
    IF tag = "data" THEN Errno.EPIPE
    ELSE IF code = OPEN_CALL /\ tag = "errno" THEN SERVER_ERROR_SENDING_RPC_ERRNO
    ELSE SERVER_ERROR_SENDING_RPC_RESULT

\* the ways the sends of a handler's reply can end: fail = 0, every send
\* succeeds; fail = i, the send of frame i fails, which on a connection the
\* peer has closed is write() = -1 or death by SIGPIPE
SendOutcomes(eof, out) ==
    IF eof /\ ~out.blocked /\ out.status = RP_SUCCESS
    THEN {[fail |-> 0, sig |-> FALSE]}
            \cup [fail : 1..Len(out.reply), sig : BOOLEAN]
    ELSE {[fail |-> 0, sig |-> FALSE]}

\* one turn of the worker loop that reads call type code: the handler runs to
\* its return, then the loop's exit test
Dispatch(c, code) ==
    /\ wstate[c] = "running"
    /\ c2s[c] # <<>>
    /\ LET f == read_from_connection(c2s[c])
           k == Head(c2s[c]).call
           eof == cstate[c] \in {"closed", "reset"}
       IN  /\ f.ok
           /\ CallType(f) = code
           /\ \E out \in {Handler(code, f.rest, eof, tab[c], files, ZeroPad, k)} :
               \E o \in SendOutcomes(eof, out) :
               \E status \in {IF o.fail = 0 THEN out.status
                               ELSE IF o.sig THEN 128 + SIGPIPE ELSE -1} :
               \E werr \in {IF o.fail = 0 \/ o.sig THEN out.werr
                             ELSE SendErrno(code, out.reply[o.fail].tag)} :
               \E exits \in {o.sig \/ Exits(status, werr)} :
                    /\ ~out.blocked
                    /\ c2s' = [c2s EXCEPT ![c] = IF exits THEN <<>> ELSE out.rest]
                    /\ s2c' = [s2c EXCEPT ![c] = IF eof THEN <<>> ELSE @ \o out.reply]
                    /\ tab' = [tab EXCEPT ![c] = IF exits THEN Tab0 ELSE out.tab]
                    /\ files' = out.files
                    /\ wstatus' = [wstatus EXCEPT ![c] = status]
                    /\ werrno' = [werrno EXCEPT ![c] = werr]
                    /\ wstate' = [wstate EXCEPT ![c] =
                                     IF exits THEN "exited" ELSE "running"]
                    /\ served' = [served EXCEPT ![c] =
                                     [k |-> k, op |-> code, status |-> status,
                                      res |-> out.res, err |-> out.err,
                                      args |-> [i \in 1..(Len(f.rest) - Len(out.rest)) |->
                                                   f.rest[i].bytes],
                                      left |-> Cardinality({i \in 1..Len(out.rest) :
                                                               out.rest[i].call = k}),
                                      reply |-> [i \in 1..(IF o.fail = 0 THEN Len(out.reply)
                                                           ELSE o.fail - 1) |->
                                                    out.reply[i].tag],
                                      data |-> out.data, n |-> served[c].n + 1,
                                      relayed |-> Relayed(served[c]),
                                      fault |-> IF o.fail > 0
                                                THEN (IF o.sig THEN "sigpipe" ELSE "send")
                                                ELSE IF out.status = -1 THEN "recv"
                                                ELSE "none"]]
    /\ held' = [held EXCEPT ![c] = IF wstate'[c] = "exited" THEN {} ELSE @]
    /\ UNCHANGED <<unit, listener, cstate, call, ret, cerrno, cbuf, ncalls, recvd>>

main_OPEN(c) == Dispatch(c, OPEN_CALL)
main_CLOSE(c) == Dispatch(c, CLOSE_CALL)
main_READ(c) == Dispatch(c, READ_CALL)
main_WRITE(c) == Dispatch(c, WRITE_CALL)
main_LSEEK(c) == Dispatch(c, LSEEK_CALL)
main_CHECKSUM(c) == Dispatch(c, CHECKSUM_CALL)

\* the default case of the switch: errno is set, status is not, and the exit
\* test of the loop reads status and errno
main_default(c) ==
    /\ wstate[c] = "running"
    /\ c2s[c] # <<>>
    /\ LET f == read_from_connection(c2s[c])
       IN  /\ f.ok
           /\ CallType(f) \notin OPEN_CALL..CHECKSUM_CALL
           /\ c2s' = [c2s EXCEPT ![c] = f.rest]
           /\ werrno' = [werrno EXCEPT ![c] = SERVER_INVALID_CALL_TYPE]
           /\ wstate' = [wstate EXCEPT ![c] =
                            IF Exits(wstatus[c], SERVER_INVALID_CALL_TYPE)
                            THEN "exited" ELSE "running"]
           /\ tab' = [tab EXCEPT ![c] =
                            IF Exits(wstatus[c], SERVER_INVALID_CALL_TYPE)
                            THEN Tab0 ELSE @]
    /\ held' = [held EXCEPT ![c] = IF wstate'[c] = "exited" THEN {} ELSE @]
    /\ UNCHANGED <<unit, listener, cstate, call, ret, cerrno, cbuf, s2c, wstatus,
                   files, ncalls, served, recvd>>

\* read_from_connection returns NULL for the call type with errno =
\* CONNECTION_CLOSED: the loop is left with status as it is
main_closed(c) ==
    /\ wstate[c] = "running"
    /\ \/ c2s[c] = <<>> /\ cstate[c] = "closed"
       \/ c2s[c] # <<>> /\ ~read_from_connection(c2s[c]).ok
    /\ c2s' = [c2s EXCEPT ![c] = <<>>]
    /\ werrno' = [werrno EXCEPT ![c] = CONNECTION_CLOSED]
    /\ wstate' = [wstate EXCEPT ![c] = "exited"]
    /\ tab' = [tab EXCEPT ![c] = Tab0]
    /\ held' = [held EXCEPT ![c] = {}]
    /\ UNCHANGED <<unit, listener, cstate, call, ret, cerrno, cbuf, s2c, wstatus,
                   files, ncalls, served, recvd>>

\* read() of the call type's length prefix returns -1 on the reset connection:
\* read_from_connection returns NULL with errno not CONNECTION_CLOSED
main_read_error(c) ==
    /\ wstate[c] = "running"
    /\ c2s[c] = <<>> /\ cstate[c] = "reset"
    /\ werrno' = [werrno EXCEPT ![c] = SERVER_CALL_TYPE_READ_ERROR]
    /\ wstatus' = [wstatus EXCEPT ![c] = -1]
    /\ wstate' = [wstate EXCEPT ![c] = "exited"]
    /\ tab' = [tab EXCEPT ![c] = Tab0]
    /\ held' = [held EXCEPT ![c] = {}]
    /\ UNCHANGED <<unit, listener, cstate, call, ret, cerrno, cbuf, c2s, s2c,
                   files, ncalls, served, recvd>>

\* a peer that does not use the stubs sends a frame as a call code
send_raw(c) ==
    /\ cstate[c] = "ready"
    /\ ncalls < MaxCalls
    /\ \E code \in RawCodes :
        c2s' = [c2s EXCEPT ![c] = IF wstate[c] = "exited" THEN <<>>
                                  ELSE Append(@, Frame(htonl(code), "raw", 0))]
    /\ ncalls' = ncalls + 1
    /\ UNCHANGED <<unit, listener, held, cstate, call, ret, cerrno, cbuf, s2c, wstate, wstatus,
                   werrno, tab, files, served, recvd>>

\* interrupt_handler in a worker: SIGINT (the handler is installed before the
\* fork, and Ctrl-C reaches every process of the server's terminal) arrives
\* while the worker waits for a call, or inside a handler after its file
\* operation and j of its sends; the worker leaves with exit(1)
interrupt_handler(c) ==
    /\ wstate[c] = "running"
    /\ cstate[c] \notin {"closed", "reset"}
    /\ \/ /\ c2s[c] = <<>>
          /\ UNCHANGED <<s2c, files, served>>
       \/ /\ c2s[c] # <<>>
          /\ LET f == read_from_connection(c2s[c])
                 k == Head(c2s[c]).call
             IN  /\ f.ok
                 /\ CallType(f) \in OPEN_CALL..CHECKSUM_CALL
                 /\ \E out \in {Handler(CallType(f), f.rest, FALSE, tab[c], files,
                                        ZeroPad, k)} :
                    \E j \in 0..(Len(out.reply) - 1) :
                       /\ ~out.blocked /\ out.status = RP_SUCCESS
                       /\ s2c' = [s2c EXCEPT ![c] = @ \o SubSeq(out.reply, 1, j)]
                       /\ files' = out.files
                       /\ served' = [served EXCEPT ![c] =
                             [k |-> k, op |-> CallType(f), status |-> 1,
                              res |-> out.res, err |-> out.err,
                              args |-> [i \in 1..(Len(f.rest) - Len(out.rest)) |->
                                           f.rest[i].bytes],
                              left |-> Cardinality({i \in 1..Len(out.rest) :
                                                       out.rest[i].call = k}),
                              reply |-> [i \in 1..j |-> out.reply[i].tag],
                              data |-> out.data, n |-> served[c].n + 1,
                              relayed |-> Relayed(served[c]), fault |-> "sigint"]]
    /\ c2s' = [c2s EXCEPT ![c] = <<>>]
    /\ wstate' = [wstate EXCEPT ![c] = "exited"]
    /\ wstatus' = [wstatus EXCEPT ![c] = 1]
    /\ tab' = [tab EXCEPT ![c] = Tab0]
    /\ held' = [held EXCEPT ![c] = {}]
    /\ UNCHANGED <<unit, listener, cstate, call, ret, cerrno, cbuf, werrno, ncalls, recvd>>

\* one client and its worker, the client using the stubs only
Solo == {"c1"}

Next ==
    \E c \in Solo :
        \/ rp_connect(c)
        \/ rp_open(c)
        \/ rp_close(c)
        \/ rp_read(c)
        \/ rp_write(c)
        \/ rp_lseek(c)
        \/ rp_checksum(c)
        \/ StubReturn(c)
        \/ client_exit(c)
        \/ main_accept(c)
        \/ main_OPEN(c)
        \/ main_CLOSE(c)
        \/ main_READ(c)
        \/ main_WRITE(c)
        \/ main_LSEEK(c)
        \/ main_CHECKSUM(c)
        \/ main_closed(c)
        \/ main_read_error(c)

Spec == Init /\ [][Next]_vars

\* the listener with two connections; the peers open and close files or send
\* call codes of their own
NextServer ==
    \E c \in Conns :
        \/ rp_connect(c)
        \/ rp_open(c)
        \/ rp_close(c)
        \/ send_raw(c)
        \/ StubReturn(c)
        \/ client_exit(c)
        \/ client_killed(c)
        \/ rp_close_killed(c)
        \/ main_accept(c)
        \/ main_OPEN(c)
        \/ main_CLOSE(c)
        \/ main_default(c)
        \/ main_closed(c)

SpecServer == Init /\ [][NextServer]_vars

\* two clients, connected at the same time, that open, read, write, seek in
\* and close files of the same host, each served by its own worker
NextIso ==
    \E c \in Conns :
        \/ rp_connect(c)
        \/ rp_open(c)
        \/ rp_read(c)
        \/ rp_write(c)
        \/ rp_lseek(c)
        \/ rp_close(c)
        \/ StubReturn(c)
        \/ main_accept(c)
        \/ main_OPEN(c)
        \/ main_READ(c)
        \/ main_WRITE(c)
        \/ main_LSEEK(c)
        \/ main_CLOSE(c)

SpecIso == Init /\ [][NextIso]_vars

\* the accept loop with two connections whose peers do nothing, close a
\* descriptor, end, or are killed inside a call
NextListener ==
    \/ main_accept_failed
    \/ \E c \in Conns :
        \/ rp_connect(c)
        \/ rp_close(c)
        \/ rp_close_killed(c)
        \/ StubReturn(c)
        \/ client_exit(c)
        \/ main_accept(c)
        \/ main_CLOSE(c)
        \/ main_closed(c)

SpecListener == Init /\ [][NextListener]_vars

\* main from its entry: start-up, the accept loop with its failures, SIGINT
\* to the parent, and peers that connect, close a descriptor and leave
InitMain == InitRPCAt(Entered, Files0) /\ unit = NoUnit

NextMain ==
    \/ main_start
    \/ main_accept_failed
    \/ main_interrupted
    \/ \E c \in Conns :
        \/ rp_connect(c)
        \/ rp_close(c)
        \/ StubReturn(c)
        \/ client_exit(c)
        \/ main_accept(c)
        \/ main_fork_failed(c)
        \/ main_CLOSE(c)
        \/ main_closed(c)

SpecMain == InitMain /\ [][NextMain]_vars

\* one or two peers that open a file and move its cursor
NextSeek ==
    \E c \in Conns :
        \/ rp_connect(c)
        \/ rp_open(c)
        \/ rp_lseek_far(c)
        \/ StubReturn(c)
        \/ main_accept(c)
        \/ main_OPEN(c)
        \/ main_LSEEK(c)

SpecSeek == Init /\ [][NextSeek]_vars

\* one client that opens and reads, and a worker that may be interrupted
NextInterrupt ==
    \E c \in Solo :
        \/ rp_connect(c)
        \/ rp_open(c)
        \/ rp_read(c)
        \/ StubReturn(c)
        \/ main_accept(c)
        \/ main_OPEN(c)
        \/ main_READ(c)
        \/ interrupt_handler(c)

SpecInterrupt == Init /\ [][NextInterrupt]_vars

\* ================================================== one frame on the wire
\* The transfer of one frame at the level of bytes and of single read() and
\* write() calls.  unit holds the platform of the build, the frame the sender
\* is asked to send, the bytes in the stream, and what each end returned.

\* sizeof(size_t) and the byte order of the host both ends are built for
Platforms == [size_t : {4, 8}, little : BOOLEAN]
Types == {"INT32", "UINT32", "INT16"}
Int32Values == {0, 1, -1, 2147483647, -2147483647 - 1}
Int16Values == {0, 1, -1, 32767, -32768}
Lengths == {0, 1, 2, 3, 256}
Payload(n) == [i \in 1..n |-> (i * 7) % 256]

\* write(2) on a connection: -1, or the number of bytes it took, which may be
\* fewer than asked
Writes(len) == {-1} \cup (IF len = 0 THEN {0} ELSE {k \in {1, len - 1, len} : k >= 1})
sock_write(wire, obj, r) == IF r = -1 THEN wire ELSE wire \o SubSeq(obj, 1, r)

\* read(2) on a connection whose peer has sent and closed: 0 at end of file or
\* for a request of no bytes, else a count up to the request and to what is
\* there; a size whose top bit is set is larger than any stream here
Reads(want, wire) ==
    IF want = 0 \/ wire = <<>> THEN {0}
    ELSE LET m == IF want < 0 THEN Len(wire) ELSE Min(want, Len(wire))
         IN  {k \in {1, m - 1, m} : k >= 1}

\* the object `size_t data_size_net = htonl(data_size)` as it lies in memory
PrefixObject(pf, n) ==
    IF pf.little THEN htonl(n) \o Zeros(pf.size_t - 4)
    ELSE Zeros(pf.size_t - 4) \o htonl(n)
\* `data_size = ntohl(data_size)`: ntohl of the low 32 bits of the object
PrefixValue(pf, obj) ==
    IF pf.little THEN ntohl(SubSeq(obj, 1, 4))
    ELSE ntohl(SubSeq(obj, pf.size_t - 3, pf.size_t))

\* send_to_connection with the outcomes r1, r2 of its two write() calls
send_to_connection(pf, wire, data, r1, r2) ==
    IF r1 = -1 THEN [ret |-> -1, wire |-> wire]
    ELSE LET w1 == sock_write(wire, PrefixObject(pf, Len(data)), r1)
         IN  IF r2 = -1 THEN [ret |-> -1, wire |-> w1]
             ELSE [ret |-> 0, wire |-> sock_write(w1, data, r2)]

\* the payload send_data_of_type hands to send_to_connection (INT32 and
\* UINT32 run the same statements)
TypedPayload(type, v) == IF type = "INT16" THEN send_INT16(v) ELSE send_INT32(v)

send_data_of_type(pf, wire, type, v, r1, r2) ==
    LET out == send_to_connection(pf, wire, TypedPayload(type, v), r1, r2)
    IN  [ret |-> out.ret, wire |-> out.wire,
         errno |-> IF out.ret < 0 THEN SERVER_ERROR_SENDING_RPC_RESULT ELSE 0]

\* read_from_connection with the counts k1, k2 its two read() calls return;
\* bytes of data_size and of the buffer that no read() wrote hold junk
read_from_connection_raw(pf, wire, k1, k2, junk) ==
    IF k1 = 0
    THEN [ok |-> FALSE, errno |-> CONNECTION_CLOSED, data_size |-> 0, nread |-> 0,
          bytes |-> <<>>, rest |-> wire]
    ELSE LET obj == [i \in 1..pf.size_t |-> IF i <= k1 THEN wire[i] ELSE junk]
             size == PrefixValue(pf, obj)
             w1 == SubSeq(wire, k1 + 1, Len(wire))
         IN  IF k2 = 0
             THEN [ok |-> FALSE, errno |-> CONNECTION_CLOSED, data_size |-> size,
                   nread |-> 0, bytes |-> <<>>, rest |-> w1]
             ELSE [ok |-> TRUE, errno |-> 0, data_size |-> size, nread |-> k2,
                   bytes |-> SubSeq(w1, 1, k2), rest |-> SubSeq(w1, k2 + 1, Len(w1))]

\* read_data_of_type on what read_from_connection returned
read_data_of_type(type, r, pad) ==
    IF ~r.ok THEN [ret |-> -1, val |-> 0]
    ELSE [ret |-> 0,
          val |-> CASE type = "INT32" -> INT32(r.bytes, pad)
                    [] type = "UINT32" -> UINT32(r.bytes, pad)
                    [] type = "INT16" -> INT16(r.bytes, pad)]

NoRead == [ok |-> FALSE, errno |-> 0, data_size |-> 0, nread |-> 0, bytes |-> <<>>,
           rest |-> <<>>]
Unit(pf, type, v, data) ==
    [pf |-> pf, type |-> type, v |-> v, data |-> data, pc |-> "send", wire |-> <<>>,
     sent |-> <<>>, sret |-> 0, serrno |-> 0, short |-> FALSE, want |-> <<>>,
     got |-> <<>>, r |-> NoRead, rret |-> 0, val |-> 0]

InitWire ==
    /\ InitRPC
    /\ unit \in {Unit(pf, "BYTES", 0, Payload(n)) : pf \in Platforms, n \in Lengths}
           \cup {Unit(pf, t, v, TypedPayload(t, v)) :
                    pf \in Platforms, t \in {"INT32", "UINT32"}, v \in Int32Values}
           \cup {Unit(pf, "INT16", v, TypedPayload("INT16", v)) :
                    pf \in Platforms, v \in Int16Values}

\* the sender calls send_to_connection on a payload
wire_send_to_connection ==
    /\ unit.pc = "send" /\ unit.type = "BYTES"
    /\ \E r1 \in Writes(unit.pf.size_t), r2 \in Writes(Len(unit.data)) :
       \E out \in {send_to_connection(unit.pf, unit.wire, unit.data, r1, r2)} :
          unit' = [unit EXCEPT !.pc = "recv", !.wire = out.wire, !.sret = out.ret,
                               !.sent = <<r1, r2>>,
                               !.short = r1 < unit.pf.size_t \/ r2 < Len(unit.data)]
    /\ UNCHANGED rpcvars

\* the sender calls send_data_of_type on a value
wire_send_data_of_type ==
    /\ unit.pc = "send" /\ unit.type \in Types
    /\ \E r1 \in Writes(unit.pf.size_t), r2 \in Writes(Len(unit.data)) :
       \E out \in {send_data_of_type(unit.pf, unit.wire, unit.type, unit.v, r1, r2)} :
          unit' = [unit EXCEPT !.pc = "recv", !.wire = out.wire, !.sret = out.ret,
                               !.serrno = out.errno, !.sent = <<r1, r2>>,
                               !.short = r1 < unit.pf.size_t \/ r2 < Len(unit.data)]
    /\ UNCHANGED rpcvars

\* the receiver's two read() calls: the counts they return and the sizes asked
WireReads(type) ==
    /\ unit.pc = "recv" /\ unit.type \in type
    /\ \E k1 \in Reads(unit.pf.size_t, unit.wire), junk \in Indeterminate :
       \E size \in {IF k1 = 0 THEN 0
                    ELSE read_from_connection_raw(unit.pf, unit.wire, k1, 0, junk).data_size} :
       \E k2 \in Reads(size, SubSeq(unit.wire, k1 + 1, Len(unit.wire))), pad \in Pads :
       \E r \in {read_from_connection_raw(unit.pf, unit.wire, k1, k2, junk)} :
       \E d \in {IF unit.type \in Types THEN read_data_of_type(unit.type, r, pad)
                 ELSE [ret |-> 0, val |-> 0]} :
          unit' = [unit EXCEPT !.pc = "done", !.wire = r.rest, !.r = r,
                               !.want = <<unit.pf.size_t, size>>, !.got = <<k1, k2>>,
                               !.short = @ \/ k1 < unit.pf.size_t
                                           \/ (k1 > 0 /\ k2 # size),
                               !.rret = d.ret, !.val = d.val]
    /\ UNCHANGED rpcvars

\* the receiver calls read_from_connection
wire_read_from_connection == WireReads({"BYTES"})
\* the receiver calls read_data_of_type
wire_read_data_of_type == WireReads(Types)

NextWire ==
    \/ wire_send_to_connection
    \/ wire_send_data_of_type
    \/ wire_read_from_connection
    \/ wire_read_data_of_type

SpecWire == InitWire /\ [][NextWire]_vars

\* ============================================ genChecksum on a descriptor
\* Calls of genChecksum on one descriptor of a process, with reads, seeks and
\* writes on that descriptor between them.  unit holds the descriptor table,
\* the files and the log of checksums returned and writes done.
SumFd == 3
SumContents == {<<>>, <<104, 105>>, <<255, 1, 255>>}
SumTabs ==
    {Tab0} \cup {[Tab0 EXCEPT ![SumFd] = [open |-> TRUE, path |-> PathData, pos |-> p,
                                          acc |-> a]] :
                    p \in 0..3, a \in {O_RDONLY, O_WRONLY, O_RDWR}}

InitSum ==
    /\ InitRPC
    /\ unit \in [tab : SumTabs, files : {[Files0 EXCEPT ![PathData] = d] : d \in SumContents},
                 log : {<<>>}, steps : {0}]

SumStep(t, fs, entry) ==
    /\ unit.steps < MaxSteps
    /\ unit' = [tab |-> t, files |-> fs, log |-> unit.log \o entry,
                steps |-> unit.steps + 1]
    /\ UNCHANGED rpcvars

\* block sizes below, at and above the length of the files
SumBlockSizes == 1..4

sum_genChecksum ==
    \E block_size \in SumBlockSizes :
    \E r \in {genChecksum(unit.tab, unit.files, SumFd, block_size)} :
        SumStep(r.tab, unit.files,
                <<[op |-> "sum", res |-> r.res, from |-> unit.tab[SumFd].pos,
                   to |-> r.tab[SumFd].pos, fd |-> unit.tab[SumFd],
                   block_size |-> block_size,
                   file |-> unit.files[PathData]]>>)

sum_read ==
    \E count \in 1..MaxCount :
    \E r \in {sys_read(unit.tab, unit.files, SumFd, count)} :
        SumStep(r.tab, unit.files, <<>>)

sum_lseek ==
    \E offset \in Offsets, whence \in Whences :
    \E r \in {sys_lseek(unit.tab, unit.files, SumFd, offset, whence)} :
        SumStep(r.tab, unit.files, <<>>)

sum_write ==
    \E buf \in Buffers \ {<<>>} :
    \E r \in {sys_write(unit.tab, unit.files, SumFd, buf, Len(buf))} :
        SumStep(r.tab, r.files,
                IF r.res > 0
                THEN <<[op |-> "write", res |-> r.res, from |-> unit.tab[SumFd].pos,
                        to |-> r.tab[SumFd].pos]>>
                ELSE <<>>)

NextSum ==
    \/ sum_genChecksum
    \/ sum_read
    \/ sum_lseek
    \/ sum_write

SpecSum == InitSum /\ [][NextSum]_vars

\* ====================================================== the user program
\* main of user1.c on connection c: unit holds its position, the number of
\* stub calls it has returned from, its variables, and the descriptor table
\* and files of the host it runs on.
LocalPath == PathNone                \* local_file_path in the user's file system
RemoteContents == {NoFile, <<>>, <<104>>, <<104, 105>>, <<104, 105, 33>>}
LocalContents == {NoFile, <<>>, <<120>>, <<120, 121, 122, 122>>, <<120, 121, 122, 33>>}
\* termination by a signal, as the shell reports it
SIGSEGV == 11

\* the line the program prints when it ends
Report ==
    [connect |-> "failed to connect to server",
     open |-> "failed to open remote file",
     checksum |-> "failed to get checksum for remote file",
     local |-> "failed to open local file",
     read |-> "failed to read from remote file",
     write |-> "failed to write to local file",
     close |-> "Failed to read from remote file",
     verify |-> "failed to generate checksum for local file",
     mismatch |-> "ERROR: File copy validation failed",
     success |-> "SUCCESS: File copied successfully",
     none |-> ""]

UserStart(local) ==
    [pc |-> "open", k |-> 0, remote_fd |-> 0, remote_checksum |-> 0, ltab |-> Tab0,
     lfiles |-> [p \in Paths |-> IF p = LocalPath THEN local ELSE NoFile],
     local_file |-> 0, local_checksum |-> 0, status |-> 0, failed |-> FALSE,
     report |-> Report.none, trace |-> <<>>]

InitUser ==
    /\ \E remote \in RemoteContents : InitRPCOn([Files0 EXCEPT ![PathData] = remote])
    /\ unit \in {UserStart(local) : local \in LocalContents}

\* the step has been made and has succeeded
UserDid(step) == Append(unit.trace, [step |-> step, ok |-> TRUE])
\* a program that returns 0 after a step has failed
UserFail_Zero(step) ==
    [unit EXCEPT !.pc = "done", !.status = 0, !.failed = TRUE, !.report = Report[step],
                 !.trace = Append(@, [step |-> step, ok |-> FALSE])]
\* `return -1` after the step has failed, with its diagnostic
UserFail(step) ==
    [unit EXCEPT !.pc = "done", !.status = -1, !.failed = TRUE, !.report = Report[step],
                 !.trace = Append(@, [step |-> step, ok |-> FALSE])]
\* a call of the user's host that fails whatever its arguments
LocalFailure == [res |-> -1]
\* the program is at pc and about to call a stub
UserCalls(c, pc) == unit.pc = pc /\ call[c].k = unit.k
\* the stub the program called at pc has returned
UserBack(c, pc) ==
    /\ unit.pc = pc /\ cstate[c] = "ready"
    /\ call[c].k = unit.k + 1 /\ recvd[c].k = call[c].k

user_rp_connect(c) ==
    /\ unit.pc = "open" /\ unit.trace = <<>>
    /\ \/ /\ Connect(c)
          /\ unit' = [unit EXCEPT !.trace = UserDid("connect")]
       \/ /\ cstate[c] = "idle"
          /\ unit' = UserFail("connect")
          /\ UNCHANGED rpcvars

user_rp_open(c) ==
    /\ UserCalls(c, "open")
    /\ StubCall(c, OPEN_CALL, 0, 0, O_RDONLY, <<>>, <<PathData, htonl(O_RDONLY)>>)
    /\ UNCHANGED unit

user_opened(c) ==
    /\ UserBack(c, "open")
    /\ unit' = IF ret[c] < 0 THEN UserFail("open")
               ELSE [unit EXCEPT !.pc = "checksum", !.k = @ + 1, !.remote_fd = ret[c],
                                 !.trace = UserDid("open")]
    /\ UNCHANGED rpcvars

user_rp_checksum(c) ==
    /\ UserCalls(c, "checksum")
    /\ StubCall(c, CHECKSUM_CALL, unit.remote_fd, CHECKSUM_BLOCK_SIZE, 0, <<>>,
                <<htonl(unit.remote_fd), htonl(CHECKSUM_BLOCK_SIZE)>>)
    /\ UNCHANGED unit

user_checksummed(c) ==
    /\ UserBack(c, "checksum")
    /\ unit' = IF ret[c] = -1 THEN UserFail("checksum")
               ELSE [unit EXCEPT !.pc = "local", !.k = @ + 1, !.remote_checksum = ret[c],
                                 !.trace = UserDid("checksum")]
    /\ UNCHANGED rpcvars

\* open(local_file_path, O_CREAT | O_RDWR, 0744)
user_open_local ==
    /\ unit.pc = "local"
    /\ \E r \in {sys_open(unit.ltab, unit.lfiles, LocalPath, O_CREAT + O_RDWR, 484),
                 LocalFailure} :
          unit' = IF r.res < 0 THEN UserFail("local")
                  ELSE [unit EXCEPT !.pc = "read", !.local_file = r.res,
                                    !.ltab = r.tab, !.lfiles = r.files,
                                    !.trace = UserDid("local")]
    /\ UNCHANGED rpcvars

user_rp_read(c) ==
    /\ UserCalls(c, "read")
    /\ StubCall(c, READ_CALL, unit.remote_fd, USER_BUFFER_SIZE, 0, Zeros(USER_BUFFER_SIZE),
                <<htonl(unit.remote_fd), Zeros(USER_BUFFER_SIZE), htonl(USER_BUFFER_SIZE)>>)
    /\ UNCHANGED unit

\* the body of the copy loop, and its end at bytes_read <= 0
user_copy(c) ==
    /\ UserBack(c, "read")
    /\ \E w \in {sys_write(unit.ltab, unit.lfiles, unit.local_file, cbuf[c],
                           Max(ret[c], 0)),
                 LocalFailure} :
          /\ ret[c] <= 0 => w # LocalFailure
          /\ unit' = IF ret[c] = -1 THEN UserFail("read")
                     ELSE IF ret[c] = 0
                     THEN [unit EXCEPT !.pc = "close", !.k = @ + 1,
                                       !.trace = UserDid("read")]
                     ELSE IF w.res = -1
                     THEN [UserFail("write") EXCEPT
                              !.trace = UserDid("read")
                                            \o <<[step |-> "write", ok |-> FALSE]>>]
                     ELSE [unit EXCEPT !.k = @ + 1, !.ltab = w.tab, !.lfiles = w.files,
                                       !.trace = UserDid("read")
                                                     \o <<[step |-> "write", ok |-> TRUE]>>]
    /\ UNCHANGED rpcvars

user_rp_close(c) ==
    /\ UserCalls(c, "close")
    /\ StubCall(c, CLOSE_CALL, unit.remote_fd, 0, 0, <<>>, <<htonl(unit.remote_fd)>>)
    /\ UNCHANGED unit

user_closed(c) ==
    /\ UserBack(c, "close")
    /\ unit' = IF ret[c] < 0 THEN UserFail("close")
               ELSE [unit EXCEPT !.pc = "verify", !.k = @ + 1,
                                 !.trace = UserDid("close")]
    /\ UNCHANGED rpcvars

\* a comparison that reports success whatever the checksums are
Verdict_Success(remote_checksum, local_checksum) ==
    [status |-> 0, report |-> Report.success]
\* the comparison of the checksums: the line printed and the value returned
Verdict(remote_checksum, local_checksum) ==
    IF remote_checksum = local_checksum
    THEN [status |-> 0, report |-> Report.success]
    ELSE [status |-> -1, report |-> Report.mismatch]

\* genChecksum of the local file and the comparison
user_verify ==
    /\ unit.pc = "verify"
    /\ \E g \in {genChecksum(unit.ltab, unit.lfiles, unit.local_file,
                             CHECKSUM_BLOCK_SIZE),
                 LocalFailure} :
          unit' = IF g.res = -1 THEN UserFail("verify")
                  ELSE [unit EXCEPT !.pc = "done", !.ltab = g.tab,
                                    !.local_checksum = g.res,
                                    !.trace = UserDid("verify"),
                                    !.status = Verdict(unit.remote_checksum, g.res).status,
                                    !.report = Verdict(unit.remote_checksum, g.res).report]
    /\ UNCHANGED rpcvars

\* rp_read has handed memcpy the NULL of a data frame that did not arrive:
\* the read from address 0 ends the program with SIGSEGV
user_crashed(c) ==
    /\ unit.pc = "read" /\ cstate[c] = "undefined"
    /\ unit' = [unit EXCEPT !.pc = "gone", !.status = 128 + SIGSEGV, !.failed = TRUE,
                            !.trace = Append(@, [step |-> "read", ok |-> FALSE])]
    /\ cstate' = [cstate EXCEPT ![c] = "closed"]
    /\ s2c' = [s2c EXCEPT ![c] = <<>>]
    /\ UNCHANGED <<listener, held, call, ret, cerrno, cbuf, c2s, wstate, wstatus, werrno,
                   tab, files, ncalls, served, recvd>>

\* the program returns from main
user_exit(c) == unit.pc = "done" /\ client_exit(c)

NextUser ==
    \/ user_open_local
    \/ user_verify
    \/ \E c \in Solo :
        \/ user_rp_connect(c)
        \/ user_rp_open(c)
        \/ user_opened(c)
        \/ user_rp_checksum(c)
        \/ user_checksummed(c)
        \/ user_rp_read(c)
        \/ user_copy(c)
        \/ user_rp_close(c)
        \/ user_closed(c)
        \/ user_crashed(c)
        \/ user_exit(c)
        \/ StubReturn(c)
        \/ main_accept(c)
        \/ main_OPEN(c)
        \/ main_CHECKSUM(c)
        \/ main_READ(c)
        \/ main_CLOSE(c)
        \/ main_closed(c)
        \/ interrupt_handler(c)

SpecUser == InitUser /\ [][NextUser]_vars

\* ==================================================== the Santa monitor
\* One record holds the monitor's fields and the position of every thread.
\* A thread waiting on a condition stands at the position named after the
\* condition.  An action is one stretch of a monitor procedure during which
\* the thread holds the monitor: from MonitorBegin, or from the point where a
\* signaller gets the monitor back, up to a Wait, a Signal that releases a
\* waiter, or MonitorEnd.  A released waiter gets the monitor at once (HOARE),
\* runs to its MonitorEnd, and the signaller goes on in a later step.

\* the group size and the queue array of the constructor: new int[3]
GroupSize == 3

MyMonitor(elves, reindeer, deliveries) ==
    [total_elves |-> elves, total_reindeer |-> reindeer, required_deliveries |-> deliveries,
     question_counter |-> 0, reindeer_home |-> 0, delivery_count |-> 0,
     elves_have_question |-> FALSE, all_deer_back |-> FALSE, retired |-> FALSE,
     santa_sleeping |-> FALSE, santas_home |-> TRUE,
     elf_queue |-> [k \in 1..GroupSize |-> 0], elf_queue_iter |-> 0,
     santa |-> "top", i |-> 0,
     elf |-> [e \in 1..elves |-> "top"],
     deer |-> [r \in 1..reindeer |-> "top"]]

\* main: the three arguments, each positive
InitSanta ==
    /\ InitRPC
    /\ \E elves \in 1..MaxElves, reindeer \in 1..MaxReindeer, deliveries \in 1..MaxDeliveries :
          unit = MyMonitor(elves, reindeer, deliveries)

Elves == 1..MaxElves
Deer == 1..MaxReindeer
IsElf(e) == e \in DOMAIN unit.elf
IsDeer(r) == r \in DOMAIN unit.deer

\* the threads waiting on elves_ready, reindeers_ready, sleigh_ready, vacation_ready
ElvesWaiting(u, cond) == {e \in DOMAIN u.elf : u.elf[e] = cond}
DeerWaiting(u, cond) == {r \in DOMAIN u.deer : u.deer[r] = cond}

\* attention_required.Signal(): Santa, if he waits in Sleep, wakes, clears
\* santa_sleeping and leaves Sleep
SignalAttention(u) ==
    IF u.santa = "attention_required"
    THEN [u EXCEPT !.santa = "deer?", !.santa_sleeping = FALSE]
    ELSE u

\* ------------------------------------------------------------------ Santa
\* Santa::ThreadFunc: while (!monitor->retired)
santa_top ==
    /\ unit.santa = "top"
    /\ unit' = [unit EXCEPT !.santa = IF unit.retired THEN "done" ELSE "Sleep"]
    /\ UNCHANGED rpcvars

\* MyMonitor::Sleep
Sleep ==
    /\ unit.santa = "Sleep"
    /\ unit' = IF ~unit.elves_have_question /\ ~unit.all_deer_back
               THEN [unit EXCEPT !.santa = "attention_required", !.santa_sleeping = TRUE]
               ELSE [unit EXCEPT !.santa = "deer?"]
    /\ UNCHANGED rpcvars

\* Santa::ThreadFunc: if (monitor->all_deer_back)
santa_all_deer_back ==
    /\ unit.santa = "deer?"
    /\ unit' = [unit EXCEPT !.santa = IF unit.all_deer_back THEN "GatherDeer" ELSE "elves?",
                            !.i = 0]
    /\ UNCHANGED rpcvars

\* the rest of a loop of Signal calls on a condition of reindeer: up to the
\* next reindeer released, or to the end of the loop when nobody waits
DeerSignals(u, cond, bound, released, after) ==
    IF u.i < bound /\ DeerWaiting(u, cond) # {}
    THEN {[u EXCEPT !.i = @ + 1, !.deer[r] = released] : r \in DeerWaiting(u, cond)}
    ELSE {after}

\* MyMonitor::GatherDeer
GatherDeer ==
    /\ unit.santa = "GatherDeer"
    /\ unit' \in DeerSignals(unit, "reindeers_ready", unit.total_reindeer - 1, "WaitSleigh",
                             [unit EXCEPT !.santa = "PrepareSleigh", !.i = 0])
    /\ UNCHANGED rpcvars

\* MyMonitor::PrepareSleigh
PrepareSleigh ==
    /\ unit.santa = "PrepareSleigh"
    /\ unit' \in DeerSignals(unit, "sleigh_ready", unit.total_reindeer, "FlyOff",
                             [unit EXCEPT !.santa = "DeliverToys", !.i = 0])
    /\ UNCHANGED rpcvars

\* MyMonitor::DeliverToys, the loop on vacation_ready
VacationSignals(u) ==
    DeerSignals(u, "vacation_ready", u.total_reindeer, "retired?",
                [u EXCEPT !.santa = "elves?", !.i = 0])

\* MyMonitor::DeliverToys, the loop on elves_ready of the retiring branch
RetireSignals(u) ==
    IF u.i < u.total_elves /\ ElvesWaiting(u, "elves_ready") # {}
    THEN {[u EXCEPT !.i = @ + 1, !.elf[e] = "asked"] : e \in ElvesWaiting(u, "elves_ready")}
    ELSE VacationSignals([u EXCEPT !.santa = "DeliverToys.vacation", !.i = 0])

\* MyMonitor::DeliverToys from MonitorBegin
DeliverToys ==
    /\ unit.santa = "DeliverToys"
    /\ unit' \in
          IF unit.delivery_count + 1 < unit.required_deliveries
          THEN VacationSignals([unit EXCEPT !.delivery_count = @ + 1,
                                            !.all_deer_back = FALSE,
                                            !.reindeer_home = 0,
                                            !.santas_home = TRUE,
                                            !.santa = "DeliverToys.vacation", !.i = 0])
          ELSE RetireSignals([unit EXCEPT !.delivery_count = @ + 1,
                                          !.retired = TRUE,
                                          !.santa = "DeliverToys.elves", !.i = 0])
    /\ UNCHANGED rpcvars

\* MyMonitor::DeliverToys after a released elf has left the monitor
DeliverToys_elves ==
    /\ unit.santa = "DeliverToys.elves"
    /\ unit' \in RetireSignals(unit)
    /\ UNCHANGED rpcvars

\* MyMonitor::DeliverToys after a released reindeer has left the monitor
DeliverToys_vacation ==
    /\ unit.santa = "DeliverToys.vacation"
    /\ unit' \in VacationSignals(unit)
    /\ UNCHANGED rpcvars

\* Santa::ThreadFunc: if (monitor->elves_have_question)
santa_elves_have_question ==
    /\ unit.santa = "elves?"
    /\ unit' = [unit EXCEPT !.santa = IF unit.elves_have_question THEN "AnswerQuestion"
                                      ELSE "top"]
    /\ UNCHANGED rpcvars

\* MyMonitor::AnswerQuestion, the loop on elves_ready and the reset after it
AnswerSignals(u) ==
    IF u.i < u.question_counter /\ ElvesWaiting(u, "elves_ready") # {}
    THEN {[u EXCEPT !.i = @ + 1, !.elf[e] = "asked"] : e \in ElvesWaiting(u, "elves_ready")}
    ELSE {[u EXCEPT !.question_counter = 0, !.elves_have_question = FALSE,
                    !.santa = "top", !.i = 0]}

\* MyMonitor::AnswerQuestion from MonitorBegin
AnswerQuestion ==
    /\ unit.santa = "AnswerQuestion"
    /\ unit' \in AnswerSignals(
          [unit EXCEPT !.elf_queue_iter = 0,
                       !.elf_queue = [k \in 1..GroupSize |->
                                         IF k <= unit.question_counter THEN 0 ELSE @[k]],
                       !.santa = "AnswerQuestion.elves", !.i = 1])
    /\ UNCHANGED rpcvars

\* MyMonitor::AnswerQuestion after a released elf has left the monitor
AnswerQuestion_elves ==
    /\ unit.santa = "AnswerQuestion.elves"
    /\ unit' \in AnswerSignals(unit)
    /\ UNCHANGED rpcvars

SantaStep ==
    \/ santa_top
    \/ Sleep
    \/ santa_all_deer_back
    \/ GatherDeer
    \/ PrepareSleigh
    \/ DeliverToys
    \/ DeliverToys_elves
    \/ DeliverToys_vacation
    \/ santa_elves_have_question
    \/ AnswerQuestion
    \/ AnswerQuestion_elves

\* -------------------------------------------------------------------- elf
\* Elf::ThreadFunc: the three tests of monitor->retired, lines 267, 269, 271
elf_retired(e) ==
    /\ IsElf(e)
    /\ unit.elf[e] \in {"top", "made", "asked"}
    /\ unit' = [unit EXCEPT !.elf[e] = IF unit.retired THEN "done"
                                       ELSE CASE @ = "top" -> "made"
                                              [] @ = "made" -> "AskQuestion"
                                              [] @ = "asked" -> "top"]
    /\ UNCHANGED rpcvars

\* the slot of elf_queue an elf writes: elf_queue[elf_queue_iter++] = id
Slot(u) == u.elf_queue_iter + 1

\* the test that lets an elf into the group, without its first half
Admits_AnyTime(u) == u.santas_home

\* MyMonitor::AskQuestion: if (!elves_have_question && santas_home)
Admits(u) == ~u.elves_have_question /\ u.santas_home

\* MyMonitor::AskQuestion
AskQuestion(e) ==
    /\ IsElf(e)
    /\ unit.elf[e] = "AskQuestion"
    /\ unit' =
          IF Admits(unit)
          THEN IF unit.question_counter + 1 < GroupSize
               THEN [unit EXCEPT !.question_counter = @ + 1,
                                 !.elf_queue[Slot(unit)] = e,
                                 !.elf_queue_iter = @ + 1,
                                 !.elf[e] = "elves_ready"]
               ELSE SignalAttention([unit EXCEPT !.question_counter = @ + 1,
                                                 !.elf_queue[Slot(unit)] = e,
                                                 !.elf_queue_iter = @ + 1,
                                                 !.elves_have_question = TRUE,
                                                 !.elf[e] = "asked"])
          ELSE [unit EXCEPT !.elf[e] = "asked"]
    /\ UNCHANGED rpcvars

ElfStep(e) == elf_retired(e) \/ AskQuestion(e)

\* --------------------------------------------------------------- reindeer
\* Reindeer::ThreadFunc: the two tests of monitor->retired, lines 297 and 305
deer_retired(r) ==
    /\ IsDeer(r)
    /\ unit.deer[r] \in {"top", "retired?"}
    /\ unit' = [unit EXCEPT !.deer[r] = IF unit.retired THEN "done"
                                        ELSE IF @ = "top" THEN "ReindeerBack" ELSE "top"]
    /\ UNCHANGED rpcvars

\* the number of reindeer at home that makes the returning one the last
LastHome_First(u) == 1
LastHome(u) == u.total_reindeer

\* MyMonitor::ReindeerBack
ReindeerBack(r) ==
    /\ IsDeer(r)
    /\ unit.deer[r] = "ReindeerBack"
    /\ unit' =
          IF unit.reindeer_home + 1 >= LastHome(unit)
          THEN SignalAttention([unit EXCEPT !.reindeer_home = @ + 1,
                                            !.all_deer_back = TRUE,
                                            !.santas_home = FALSE,
                                            !.deer[r] = "back?"])
          ELSE [unit EXCEPT !.reindeer_home = @ + 1, !.deer[r] = "back?"]
    /\ UNCHANGED rpcvars

\* Reindeer::ThreadFunc: if (!monitor->all_deer_back)
deer_all_deer_back(r) ==
    /\ IsDeer(r)
    /\ unit.deer[r] = "back?"
    /\ unit' = [unit EXCEPT !.deer[r] = IF unit.all_deer_back THEN "WaitSleigh"
                                        ELSE "WaitOthers"]
    /\ UNCHANGED rpcvars

\* MyMonitor::WaitOthers
WaitOthers(r) ==
    /\ IsDeer(r)
    /\ unit.deer[r] = "WaitOthers"
    /\ unit' = [unit EXCEPT !.deer[r] = IF unit.all_deer_back THEN "WaitSleigh"
                                        ELSE "reindeers_ready"]
    /\ UNCHANGED rpcvars

\* MyMonitor::WaitSleigh
WaitSleigh(r) ==
    /\ IsDeer(r)
    /\ unit.deer[r] = "WaitSleigh"
    /\ unit' = [unit EXCEPT !.deer[r] = "sleigh_ready"]
    /\ UNCHANGED rpcvars

\* MyMonitor::FlyOff
FlyOff(r) ==
    /\ IsDeer(r)
    /\ unit.deer[r] = "FlyOff"
    /\ unit' = [unit EXCEPT !.deer[r] = "vacation_ready"]
    /\ UNCHANGED rpcvars

DeerStep(r) ==
    \/ deer_retired(r)
    \/ ReindeerBack(r)
    \/ deer_all_deer_back(r)
    \/ WaitOthers(r)
    \/ WaitSleigh(r)
    \/ FlyOff(r)

NextSanta ==
    \/ SantaStep
    \/ \E e \in Elves : ElfStep(e)
    \/ \E r \in Deer : DeerStep(r)

SpecSanta == InitSanta /\ [][NextSanta]_vars

\* every thread that can take a step takes one in the end
SpecSantaFair ==
    /\ SpecSanta
    /\ WF_vars(SantaStep)
    /\ \A e \in Elves : WF_vars(ElfStep(e))
    /\ \A r \in Deer : WF_vars(DeerStep(r))

\* ============================================ compress and decompress
\* The two filters as functions from the bytes on standard input to the bytes
\* on standard output.  The writer is the pair write_buffer, write_index of
\* bit_ops.c with the bytes written so far; the reader is a position in the
\* bits of the input, most significant bit of each byte first.

EOF_SIGNAL == 256
SUCCESS == 0
ERR_INDEX_OUT_OF_BOUNDS == -3
\* the bits of a byte and the entries of previous[]
ByteBits == 8
Window == 8
\* the bits of an offset into previous[]
OffsetBits == 3

\* the bytes the inputs are made of: zero, two letters, a byte above 127
CompBytes == {0, 65, 66, 200}

RECURSIVE Pow2(_)
Pow2(n) == IF n = 0 THEN 1 ELSE 2 * Pow2(n - 1)

\* (v >> i) & 1
BitOf(v, i) == (v \div Pow2(i)) % 2

\* a value stored into a char of the platform, and read back as unsigned
\* short or unsigned char
ToChar(v, signed) == IF signed /\ v % 256 >= 128 THEN (v % 256) - 256 ELSE v % 256
ToUShort(v) == v % 65536
ToUChar(v) == v % 256

\* the writer before the first write_bit
Writer0 == [write_buffer |-> 0, write_index |-> ByteBits - 1, out |-> <<>>, bits |-> 0]

\* write_bit: the bit goes to write_index, and a full buffer is written
write_bit(w, bit) ==
    LET loaded == IF bit # 0 /\ BitOf(w.write_buffer, w.write_index) = 0
                  THEN w.write_buffer + Pow2(w.write_index)
                  ELSE w.write_buffer
    IN  IF w.write_index - 1 < 0
        THEN [w EXCEPT !.write_buffer = 0, !.write_index = ByteBits - 1,
                       !.out = Append(@, loaded), !.bits = @ + 1]
        ELSE [w EXCEPT !.write_buffer = loaded, !.write_index = @ - 1, !.bits = @ + 1]

\* the bits i, i-1, .. 0 of a value, written one by one
RECURSIVE write_bits(_, _, _)
write_bits(w, v, i) ==
    IF i < 0 THEN w ELSE write_bits(write_bit(w, BitOf(v, i)), v, i - 1)

write_byte(w, byte) == write_bits(w, ToUChar(byte), ByteBits - 1)

\* n times write_bit(1)
RECURSIVE write_ones(_, _)
write_ones(w, n) == IF n = 0 THEN w ELSE write_ones(write_bit(w, 1), n - 1)

\* flush_write_buffer: empty_bits = 7 - write_index, then that many write_bit(1)
flush_write_buffer(w) == write_ones(w, (ByteBits - 1) - w.write_index)

\* previous[] after a byte: every entry moves up by one, the byte goes first
Shift(previous, byte, signed) ==
    [i \in 0..(Window - 1) |-> IF i = 0 THEN ToChar(byte, signed) ELSE previous[i - 1]]

Previous0 == [i \in 0..(Window - 1) |-> 0]

\* the entries of previous[] equal to the byte read
Matches(previous, byte) == {i \in 0..(Window - 1) : byte = previous[i]}
First(S) == CHOOSE i \in S : \A j \in S : i <= j

\* compress.c main: the loop body for one byte
compress_byte(w, previous, byte) ==
    IF Matches(previous, byte) # {}
    THEN write_bits(write_bit(w, 0), First(Matches(previous, byte)), OffsetBits - 1)
    ELSE write_byte(write_bit(w, 1), byte)

\* compress.c main: the loop over the input from its k-th byte
RECURSIVE compress_from(_, _, _, _, _)
compress_from(x, k, w, previous, signed) ==
    IF k > Len(x)
    THEN w
    ELSE compress_from(x, k + 1, compress_byte(w, previous, x[k]),
                       Shift(previous, x[k], signed), signed)

\* compress.c main: the writer after the loop, and the output after the flush
compress_loop(x, signed) == compress_from(x, 1, Writer0, Previous0, signed)
compress(x, signed) == flush_write_buffer(compress_loop(x, signed)).out

\* read_bit at position p of the input z: the bit, or EOF_SIGNAL past the end
read_bit(z, p) ==
    IF p >= Len(z) * ByteBits
    THEN EOF_SIGNAL
    ELSE BitOf(z[(p \div ByteBits) + 1], (ByteBits - 1) - (p % ByteBits))

\* read_byte: the loop from bit i down to 0, with the byte built so far
RECURSIVE read_bits(_, _, _, _)
read_bits(z, p, i, byte) ==
    IF i < 0 THEN byte
    ELSE IF read_bit(z, p) = EOF_SIGNAL THEN EOF_SIGNAL
    ELSE read_bits(z, p + 1, i - 1, byte + read_bit(z, p) * Pow2(i))

\* read_byte at position p: the byte, or EOF_SIGNAL when a bit is missing
read_byte(z, p) == read_bits(z, p, ByteBits - 1, 0)

\* decompress main: the loop from bit position p
RECURSIVE decompress_from(_, _, _, _, _)
decompress_from(z, p, w, previous, signed) ==
    LET bit == read_bit(z, p)
        byte == read_byte(z, p + 1)
        offset == [k \in 0..(OffsetBits - 1) |-> read_bit(z, p + 1 + k)]
        \* (buffer[0] << 2) | (buffer[1] << 1) | buffer[2]: a sum for bits, and
        \* above 7 as soon as one of the three is EOF_SIGNAL
        index == offset[0] * 4 + offset[1] * 2 + offset[2]
        found == ToUShort(previous[index])
    IN  IF bit = EOF_SIGNAL
        THEN [status |-> SUCCESS, w |-> flush_write_buffer(w)]
        ELSE IF bit = 1
        THEN IF byte = EOF_SIGNAL
             THEN [status |-> SUCCESS, w |-> flush_write_buffer(w)]
             ELSE decompress_from(z, p + 1 + ByteBits, write_byte(w, byte),
                                  Shift(previous, byte, signed), signed)
        ELSE IF index > Window - 1
        THEN [status |-> ERR_INDEX_OUT_OF_BOUNDS, w |-> w]
        ELSE decompress_from(z, p + 1 + OffsetBits, write_byte(w, found),
                             Shift(previous, found, signed), signed)

decompress(z, signed) == decompress_from(z, 0, Writer0, Previous0, signed)

\* the inputs: byte sequences up to MaxInput bytes, on a platform whose char
\* is signed or unsigned
RECURSIVE BytesUpTo(_)
BytesUpTo(n) ==
    IF n = 0 THEN {<<>>}
    ELSE BytesUpTo(n - 1) \cup {Append(s, b) : s \in BytesUpTo(n - 1), b \in CompBytes}

InitComp ==
    /\ InitRPC
    /\ \E x \in BytesUpTo(MaxInput), signed \in BOOLEAN :
          unit = [pc |-> "input", x |-> x, signed |-> signed, bits |-> 0,
                  z |-> <<>>, y |-> <<>>, status |-> SUCCESS]

\* ./compress < x > z
comp_compress ==
    /\ unit.pc = "input"
    /\ unit' = [unit EXCEPT !.pc = "compressed",
                            !.bits = compress_loop(unit.x, unit.signed).bits,
                            !.z = compress(unit.x, unit.signed)]
    /\ UNCHANGED rpcvars

\* ./decompress < z > y
comp_decompress ==
    /\ unit.pc = "compressed"
    /\ \E d \in {decompress(unit.z, unit.signed)} :
          unit' = [unit EXCEPT !.pc = "decompressed", !.y = d.w.out, !.status = d.status]
    /\ UNCHANGED rpcvars

NextComp == comp_compress \/ comp_decompress

SpecComp == InitComp /\ [][NextComp]_vars

\* ================================================================= claims
\* the stub of connection c has returned from its call
Returned(c) == cstate[c] \in {"ready", "undefined"} /\ call[c].k > 0 /\ recvd[c].k = call[c].k
\* the worker's handler has handled the call the stub of c made last
Handled(c) == call[c].k > 0 /\ served[c].k = call[c].k
\* the handler of that call ran to its return RP_SUCCESS
Completed(c) == Handled(c) /\ served[c].status = RP_SUCCESS

\* C1: on one connection there is exactly one Result Message per Call
\* Message and the stub consumes all of it: while a call waits for its reply
\* the stream from the server holds no frame of an earlier call, and a stub
\* return consumes frames of its own call only and leaves none of them unread.
C1_OneResultPerCall ==
    \A c \in Conns :
        /\ cstate[c] = "await" =>
              \A i \in 1..Len(s2c[c]) : s2c[c][i].call = call[c].k
        /\ Returned(c) =>
              /\ \A i \in 1..Len(recvd[c].frames) : recvd[c].frames[i].call = call[c].k
              /\ s2c[c] = <<>>

\* C2: the reply of the WRITE handler is the result frame, followed by one
\* errno frame only when the result is -1; it never holds a data frame.
C2_WriteReply ==
    \A c \in Conns :
        (served[c].op = WRITE_CALL /\ served[c].status = RP_SUCCESS) =>
            served[c].reply = IF served[c].res = -1 THEN <<"result", "errno">>
                              ELSE <<"result">>

\* C3: in every handler a primary result of -1 is immediately followed by
\* exactly one errno frame, and any other primary result by none.
C3_ErrnoIffFailure ==
    \A c \in Conns :
        (served[c].op # 0 /\ served[c].status = RP_SUCCESS) =>
            /\ served[c].reply[1] = "result"
            /\ served[c].res = -1 => served[c].reply = <<"result", "errno">>
            /\ served[c].res # -1 =>
                  \A i \in 1..Len(served[c].reply) : served[c].reply[i] # "errno"

\* C3 witness: a handler has answered a failed operation with result and errno
C3_Witness ==
    \E c \in Conns :
        /\ served[c].op \in {OPEN_CALL, CHECKSUM_CALL, READ_CALL}
        /\ served[c].status = RP_SUCCESS
        /\ served[c].res = -1
        /\ served[c].reply = <<"result", "errno">>

\* C4: when the remote operation of a call fails, the stub returns -1 and the
\* caller's errno at return is the value the server sent in the errno frame.
C4_ErrnoRelayed ==
    \A c \in Conns :
        (Returned(c) /\ Completed(c) /\ served[c].res = -1) =>
            /\ recvd[c].returned
            /\ ret[c] = -1
            /\ cerrno[c] = served[c].err

\* C5: the argument frames the stub sends for a call are exactly the frames
\* the matching handler consumes, in number, order and content.
C5_ArgsConsumed ==
    \A c \in Conns :
        Handled(c) =>
            /\ served[c].op = call[c].op
            /\ served[c].args = call[c].args
            /\ served[c].left = 0

\* C6: a READ with count c returns r <= c; when r > 0 the handler has sent one
\* data frame of exactly r bytes, the bytes read, and the caller's buffer
\* starts with them; when r = 0 neither a data nor an errno frame is sent or
\* consumed.
C6_ReadResult ==
    \A c \in Conns :
        (Returned(c) /\ call[c].op = READ_CALL) =>
            /\ recvd[c].returned
            /\ ret[c] <= call[c].count
            /\ ret[c] > 0 =>
                  /\ Completed(c)
                  /\ served[c].res = ret[c]
                  /\ served[c].reply = <<"result", "data">>
                  /\ Len(served[c].data) = ret[c]
                  /\ SubSeq(cbuf[c], 1, ret[c]) = served[c].data
                  /\ Len(recvd[c].frames) = 2
            /\ ret[c] = 0 =>
                  /\ Len(recvd[c].frames) = 1
                  /\ Handled(c) => served[c].reply = <<"result">>

\* C7: rp_checksum consumes the errno frame exactly when the 16-bit checksum
\* it received is -1, which is exactly when handle_checksum has sent one, and
\* then the caller's errno is the remote error value.
C7_ChecksumErrno ==
    \A c \in Conns :
        (Returned(c) /\ Completed(c) /\ call[c].op = CHECKSUM_CALL) =>
            /\ (served[c].res = -1) <=> (Len(recvd[c].frames) = 2)
            /\ served[c].res = -1 => cerrno[c] = served[c].err

\* C8: a zero-length frame is a valid frame, so a READ or WRITE call with
\* count 0 is served and answered with a result and the worker lives on.
C8_ZeroLengthFrame ==
    \A c \in Conns :
        (Handled(c) /\ served[c].op \in {READ_CALL, WRITE_CALL} /\ call[c].count = 0) =>
            /\ served[c].status = RP_SUCCESS
            /\ served[c].reply # <<>>
            /\ wstate[c] = "running"

\* C9: when the client has closed its connection and the worker, waiting for
\* the next call code, finds no further frame, the worker leaves its loop and
\* exits with status 0 on the connection-closed condition (after any number
\* of served calls), and the step changes neither the listener nor any other
\* worker or connection.
C9_ClosedExitsClean ==
    [][\A c \in Conns :
          (wstate[c] = "running" /\ cstate[c] \in {"closed", "reset"}
             /\ c2s[c] = <<>> /\ wstate'[c] # "running") =>
              /\ wstate'[c] = "exited"
              /\ wstatus'[c] = 0
              /\ werrno'[c] = CONNECTION_CLOSED
              /\ listener' = listener
              /\ files' = files
              /\ \A d \in Conns \ {c} :
                    /\ wstate'[d] = wstate[d] /\ wstatus'[d] = wstatus[d]
                    /\ tab'[d] = tab[d] /\ c2s'[d] = c2s[d] /\ s2c'[d] = s2c[d]
                    /\ cstate'[d] = cstate[d]]_vars

\* C10: a worker that has read a call code outside 1..6 has terminated; it
\* does not read another frame of the connection as a call code.
C10_InvalidCodeTerminates ==
    \A c \in Conns :
        werrno[c] = SERVER_INVALID_CALL_TYPE => wstate[c] = "exited"

\* the worker and the connection of d are the same before and after the step
SameWorker(d) ==
    /\ wstate'[d] = wstate[d] /\ wstatus'[d] = wstatus[d] /\ werrno'[d] = werrno[d]
    /\ tab'[d] = tab[d] /\ c2s'[d] = c2s[d] /\ s2c'[d] = s2c[d]
    /\ cstate'[d] = cstate[d] /\ served'[d] = served[d]

Serves(c) == served'[c] # served[c]

\* the paths worker c has open
OpenPaths(c) == {tab[c][fd].path : fd \in {g \in WorkerFds : tab[c][g].open}}

\* the descriptor argument of the call the worker of c has handled
FdArg(c) == ntohl(served'[c].args[1])

\* descriptor tables are private: a step of worker c leaves every other
\* worker's table as it is, a descriptor number that is not open in c's own
\* table fails with EBADF whatever it names elsewhere, and every worker holds
\* its own connection only
OwnTable(c) ==
    /\ \A d \in Conns \ {c} : tab'[d] = tab[d] /\ held'[d] = held[d]
    /\ (/\ served'[c].op \in {CLOSE_CALL, READ_CALL, WRITE_CALL, LSEEK_CALL}
        /\ served'[c].fault = "none"
        /\ ~IsOpen(tab[c], FdArg(c)))
          => served'[c].res = -1 /\ served'[c].err = Errno.EBADF /\ files' = files
    /\ \A d \in Conns : held'[d] \subseteq {d}

\* C12 as stated: with clients connected concurrently every worker has its
\* own descriptor table, and an operation in one worker changes neither the
\* cursor, the open/closed state nor the contents seen through a descriptor
\* of another worker; no worker holds another client's connection.
C12_NoCrossWorkerEffect ==
    [][\A c \in Conns :
          Serves(c) =>
              /\ OwnTable(c)
              /\ \A d \in Conns \ {c} : \A p \in OpenPaths(d) :
                    files'[p] = files[p]]_vars

\* the file the call handled by the worker of c operates on
TargetPath(c) ==
    IF served'[c].op = OPEN_CALL THEN served'[c].args[1]
    ELSE IF IsOpen(tab[c], FdArg(c)) THEN tab[c][FdArg(c)].path
    ELSE NoFile

\* C12 amended: as above for the descriptor tables and the connections; the
\* contents seen through another worker's descriptor change only when the
\* operation is one on the same file of the host's file system.
C12_OwnDescriptorTable ==
    [][\A c \in Conns :
          Serves(c) =>
              /\ OwnTable(c)
              /\ \A d \in Conns \ {c} : \A p \in OpenPaths(d) :
                    files'[p] # files[p] =>
                        served'[c].fault = "none" /\ TargetPath(c) = p]_vars

\* C12 witness: both workers have the same descriptor number open and one
\* of them has moved its cursor
C12_Witness ==
    \E c \in Conns, d \in Conns :
        /\ c # d
        /\ wstate[c] = "running" /\ wstate[d] = "running"
        /\ tab[c][3].open /\ tab[d][3].open
        /\ tab[c][3].pos > 0 /\ tab[d][3].pos = 0

\* C13: after accept and fork the listener has closed its copy of the
\* connection, has read or written nothing on it and is back at accept; a
\* failed accept changes nothing but leaves the listener at accept; and no
\* step of a worker or a client, whatever state the workers are in, changes
\* the listener, so a pending connection is accepted next.
C13_ListenerNeverBlocked ==
    [][/\ \A c \in Conns :
            (wstate[c] = "none" /\ wstate'[c] = "running") =>
                /\ listener'.pc = "accept"
                /\ listener'.held = {}
                /\ held'[c] = {c}
                /\ c2s'[c] = c2s[c] /\ s2c'[c] = s2c[c]
       /\ listener'.failed # listener.failed =>
                /\ listener'.pc = "accept"
                /\ listener'.held = listener.held
                /\ wstate' = wstate /\ held' = held
       /\ listener' # listener =>
                \/ \E c \in Conns : wstate[c] = "none" /\ wstate'[c] = "running"
                \/ listener'.failed # listener.failed
       /\ listener'.pc = "accept"]_vars

\* C13 witness: the second connection was accepted while the worker of the
\* first, which has served nothing, is blocked in its read, after an accept
\* that failed
C13_Witness ==
    \E c \in Conns, d \in Conns :
        /\ listener.accepted = <<c, d>>
        /\ listener.failed > 0 /\ listener.pc = "accept"
        /\ wstate[c] = "running" /\ served[c].n = 0
        /\ c2s[c] = <<>> /\ cstate[c] = "ready"
        /\ wstate[d] \in {"running", "exited"}


\* the sender's two write() calls took the whole prefix and the whole payload
SentWhole == unit.sret = 0 /\ unit.sent = <<unit.pf.size_t, Len(unit.data)>>

\* C14: on a transport whose read() may return fewer bytes than asked,
\* read_from_connection given a whole frame with a payload of n > 0 bytes
\* returns a buffer holding exactly those n bytes
C14_ShortReadsStillWholePayload ==
    (unit.pc = "done" /\ unit.type = "BYTES" /\ SentWhole /\ Len(unit.data) > 0)
        => /\ unit.r.ok
           /\ unit.r.data_size = Len(unit.data)
           /\ unit.r.nread = unit.r.data_size
           /\ unit.r.bytes = unit.data

\* C15: on a transport whose write() may take fewer bytes than asked, a
\* send_to_connection that returns 0 has put the whole length prefix and the
\* whole payload on the stream, and it returns -1 when a write() fails
C15_ShortWritesStillWholeFrame ==
    unit.pc = "recv"
        => /\ unit.sret = 0 =>
                unit.wire = PrefixObject(unit.pf, Len(unit.data)) \o unit.data
           /\ (unit.sent[1] = -1 \/ unit.sent[2] = -1) => unit.sret = -1

\* C16: a value of each type sent by send_data_of_type is the value
\* read_data_of_type stores, and the length of a sent frame is the length
\* read_from_connection decodes, whenever every read() and write() of the
\* transfer moved the bytes it was asked for
C16_TypedRoundTrip ==
    (unit.pc = "done" /\ ~unit.short)
        => /\ unit.r.data_size = Len(unit.data)
           /\ unit.type \in Types =>
                /\ unit.rret = 0
                /\ unit.val = unit.v
                /\ unit.r.bytes = unit.data
C16_Witness ==
    /\ unit.pc = "done" /\ ~unit.short
    /\ unit.type = "INT16" /\ unit.v = -32768 /\ unit.val = -32768
    /\ unit.pf.size_t = 8 /\ unit.pf.little

\* C17: a handler whose file operation returned -1 and whose reply was sent
\* has sent the result and the errno, returns RP_SUCCESS and leaves its worker
\* running with the connection open: the failure ends neither
C17_FailedOperationNotFatal ==
    [][\A c \in Conns :
          (Serves(c) /\ RelayedFailure(served'[c])) =>
              /\ served'[c].status = RP_SUCCESS
              /\ served'[c].reply = <<"result", "errno">>
              /\ served'[c].err > 0
              /\ wstate'[c] = "running" /\ wstatus'[c] = RP_SUCCESS
              /\ c \in held'[c]]_vars

\* C17 witness: the stub has returned a descriptor to its caller from a worker
\* that relayed a failed operation in an earlier call
C17_Witness ==
    \E c \in Conns :
        /\ served[c].relayed /\ served[c].op = OPEN_CALL /\ served[c].res >= 0
        /\ Returned(c) /\ ret[c] = served[c].res
        /\ wstate[c] = "running"

\* the stub of c has returned from an rp_read whose handler read data_read > 0
\* bytes, having received the result frame and no data frame
MissedData(c) ==
    /\ call[c].op = READ_CALL /\ recvd[c].k = call[c].k
    /\ served[c].k = call[c].k /\ served[c].res > 0
    /\ Len(recvd[c].frames) = 1 /\ recvd[c].frames[1].tag = "result"

\* C18: an rp_read that receives a positive result and then no data frame
\* returns -1 to its caller, without using the payload it did not get
C18_MissingDataIsFailure ==
    \A c \in Conns : MissedData(c) => (cstate[c] = "ready" /\ ret[c] = -1)

\* C20: two calls of genChecksum on a descriptor with no write to its file
\* between them return the same value
C20_ChecksumRepeatable ==
    \A i \in 1..Len(unit.log), j \in 1..Len(unit.log) :
        (/\ i < j
         /\ unit.log[i].op = "sum" /\ unit.log[j].op = "sum"
         /\ \A m \in i..j : unit.log[m].op = "sum")
            => unit.log[i].res = unit.log[j].res
\* C20 witness: two checksums of a file of three bytes, the cursor moved
\* between the calls
C20_Witness ==
    /\ Len(unit.log) = 2 /\ unit.steps = 3
    /\ unit.log[1].op = "sum" /\ unit.log[2].op = "sum"
    /\ unit.log[1].res = 1 /\ unit.log[2].res = 1

\* C19: a run of the user program in which no call failed ends with the local
\* checksum equal to the remote checksum and with exit status 0
C19_CopyVerified ==
    (unit.pc = "done" /\ ~unit.failed)
        => (unit.local_checksum = unit.remote_checksum /\ unit.status = 0)

\* C21: a successful genChecksum leaves the cursor of the descriptor where
\* it was before the call
C21_NoNetCursorMovement ==
    \A i \in 1..Len(unit.log) :
        (unit.log[i].op = "sum" /\ unit.log[i].res # -1)
            => unit.log[i].to = unit.log[i].from
\* C21 as the code has it: a successful genChecksum leaves the cursor at
\* offset 0, which is where it was before only if it was at offset 0
C21_CursorAtStart ==
    \A i \in 1..Len(unit.log) :
        (unit.log[i].op = "sum" /\ unit.log[i].res # -1)
            => /\ unit.log[i].to = 0
               /\ unit.log[i].to = unit.log[i].from <=> unit.log[i].from = 0
\* C21 witness: a checksum of a file of three bytes taken with the cursor at
\* offset 2 has left the cursor at offset 0
C21_Witness ==
    \E i \in 1..Len(unit.log) :
        /\ unit.log[i].op = "sum" /\ unit.log[i].res = 1
        /\ unit.log[i].from = 2 /\ unit.log[i].to = 0

\* the user program has ended
UserEnded == unit.pc \in {"done", "gone"}
\* the steps whose failure is a fault of a call, not of the comparison
FaultSteps == {"connect", "open", "checksum", "local", "read", "write", "close", "verify"}

\* C22: a run in which no call failed and the checksums differ ends with the
\* validation-failure line and a nonzero status; no failed call ends with that
\* line, and the success line is printed only over equal checksums
C22_MismatchIsIntegrityFailure ==
    /\ (unit.pc = "done" /\ ~unit.failed /\ unit.local_checksum # unit.remote_checksum)
          => (unit.status # 0 /\ unit.report = Report.mismatch)
    /\ (UserEnded /\ unit.failed) => unit.report # Report.mismatch
    /\ \A step \in FaultSteps : Report[step] # Report.mismatch
    /\ unit.report = Report.success
          => (~unit.failed /\ unit.local_checksum = unit.remote_checksum)
C22_Witness ==
    /\ unit.pc = "done" /\ ~unit.failed
    /\ unit.local_checksum = 120 /\ unit.remote_checksum = 0
    /\ unit.status = -1 /\ unit.report = Report.mismatch

\* the stub calls the program has made, as its trace shows them
StubSteps ==
    {i \in 1..Len(unit.trace) : unit.trace[i].step \in {"open", "checksum", "read", "close"}}

\* C23: the user program ends with status 0 only after connect, remote open,
\* remote checksum, local open, every read and write, remote close and the
\* local checksum have succeeded and the checksums are equal; a step that
\* fails is the last step made and the status is then nonzero
C23_ZeroOnlyAfterAllSteps ==
    /\ \A i \in 1..Len(unit.trace) : ~unit.trace[i].ok => (i = Len(unit.trace) /\ UserEnded)
    /\ UserEnded =>
          /\ Cardinality(StubSteps) = ncalls
          /\ (\E i \in 1..Len(unit.trace) : ~unit.trace[i].ok) => unit.status # 0
          /\ unit.status = 0 =>
                /\ \A step \in FaultSteps \ {"write"} :
                      \E i \in 1..Len(unit.trace) : unit.trace[i].step = step
                /\ unit.trace[Len(unit.trace)].step = "verify"
                /\ unit.local_checksum = unit.remote_checksum
C23_Witness ==
    /\ unit.pc = "done" /\ unit.status = 0 /\ Len(unit.trace) = 11
    /\ unit.lfiles[LocalPath] = <<104, 105, 33>>

\* the parent process has ended because a call failed
ListenerFailed == listener.pc = "exited" /\ listener.why \in StartFaults \cup {"fork"}

\* C24: a parent process that ends because of a wrong argument count or a
\* failed signal(), socket(), bind(), listen() or fork() ends with a nonzero
\* status
C24_FailureExitsNonzero == ListenerFailed => listener.status # 0

\* C25: once the parent process has handled SIGINT its listening socket is
\* closed and it has ended with status 1; from then on it accepts nothing: no
\* connection gets a worker and no peer gets a connection
C25_SigintStopsServer ==
    [][/\ listener'.why = "sigint" =>
             /\ listener'.pc = "exited"
             /\ listener'.socket = "closed"
             /\ listener'.status = 1
       /\ listener.why = "sigint" =>
             /\ listener' = listener
             /\ \A c \in Conns :
                   /\ wstate[c] = "none" => wstate'[c] = "none"
                   /\ cstate[c] = "idle" => cstate'[c] = "idle"]_vars
C25_Witness ==
    /\ listener.why = "sigint"
    /\ \E c, d \in Conns :
          /\ wstate[c] = "exited" /\ Len(listener.accepted) = 1
          /\ cstate[d] = "ready" /\ wstate[d] = "none"

\* C27: Santa is in a delivery (GatherDeer, PrepareSleigh, and DeliverToys up
\* to its MonitorBegin) only while all_deer_back is set and reindeer_home
\* equals total_reindeer
C27_DeliveryOnlyWithAllDeer ==
    unit.santa \in {"GatherDeer", "PrepareSleigh", "DeliverToys"} =>
       /\ unit.all_deer_back
       /\ unit.reindeer_home = unit.total_reindeer
C27_Witness ==
    /\ unit.santa = "DeliverToys" /\ unit.delivery_count = 1
    /\ unit.total_reindeer = MaxReindeer
    /\ \E r \in DOMAIN unit.deer : unit.deer[r] = "FlyOff"

\* the elves whose ids stand in elf_queue
Queued(u) == {u.elf_queue[k] : k \in 1..GroupSize} \ {0}

\* C28: question_counter and elf_queue_iter never pass 3; AnswerQuestion
\* starts only with three different elves in the queue and both counters at
\* 3; and from the third elf's arrival (elves_have_question set) to the end
\* of AnswerQuestion no elf is added to the queue
C28_OneGroupOfThree ==
    [][/\ unit'.question_counter <= 3 /\ unit'.elf_queue_iter <= 3
       /\ (unit.santa = "AnswerQuestion" /\ unit'.santa # "AnswerQuestion") =>
             /\ unit.question_counter = 3 /\ unit.elf_queue_iter = 3
             /\ Cardinality(Queued(unit)) = 3
       /\ unit.elves_have_question =>
             /\ unit'.question_counter <= unit.question_counter
             /\ unit'.elf_queue_iter <= unit.elf_queue_iter
             /\ Queued(unit') \subseteq Queued(unit)]_vars
C28_Witness ==
    /\ unit.santa = "AnswerQuestion.elves" /\ unit.question_counter = 3
    /\ \E e \in DOMAIN unit.elf : unit.elf[e] = "AskQuestion"
    /\ \E e \in DOMAIN unit.elf : unit.elf[e] = "elves_ready"

\* the last reindeer has returned and the delivery it asked for has not been
\* made
DeliveryDue(u) == u.all_deer_back /\ ~u.retired

\* C29: when Santa leaves Sleep with all reindeer back and a group of elves
\* waiting he goes to GatherDeer first, and he never enters AnswerQuestion
\* while a delivery is due
C29_ReindeerFirst ==
    [][/\ (/\ unit.santa = "deer?" /\ unit'.santa # "deer?"
           /\ unit.all_deer_back /\ unit.elves_have_question) => unit'.santa = "GatherDeer"
       /\ (unit.santa = "AnswerQuestion" /\ unit'.santa # "AnswerQuestion") =>
             ~DeliveryDue(unit)]_vars

\* every thread of the program has left its ThreadFunc
AllExited(u) ==
    /\ u.santa = "done"
    /\ \A e \in DOMAIN u.elf : u.elf[e] = "done"
    /\ \A r \in DOMAIN u.deer : u.deer[r] = "done"

\* C26: under fair scheduling of the threads, for every number of elves,
\* reindeer and deliveries, Santa, every elf and every reindeer terminate in
\* the end, so that no thread waits on a condition for ever
C26_EveryThreadTerminates == <>AllExited(unit)

\* C30: for every input x, decompress applied to the output of compress
\* gives x back with status 0, and the output of compress holds every bit
\* compress has written, the last partly filled byte included
C30_RoundTrip ==
    /\ unit.pc = "decompressed" => (unit.y = unit.x /\ unit.status = SUCCESS)
    /\ unit.pc # "input" => Len(unit.z) * ByteBits >= unit.bits

\* C31: the offset handle_lseek hands to lseek is the offset rp_lseek was
\* given, for every int32_t offset and every whence, and rp_lseek returns what
\* lseek returned
C31_OffsetAndResultCarried ==
    \A c \in Conns :
        /\ (Completed(c) /\ served[c].op = LSEEK_CALL) =>
              /\ INT32(served[c].args[2], ZeroPad) = call[c].count
              /\ UINT32(served[c].args[3], ZeroPad) = call[c].flags
        /\ (Returned(c) /\ Completed(c) /\ served[c].op = LSEEK_CALL) =>
              ret[c] = served[c].res
C31_Witness ==
    \E c \in Conns :
        /\ Returned(c) /\ Completed(c) /\ served[c].op = LSEEK_CALL
        /\ call[c].count = -1 /\ call[c].flags = SEEK_CUR
        /\ ret[c] = 2147483646

\* C32: from any cursor position, genChecksum on a descriptor open for
\* reading returns the XOR of every byte of the file, first to last, and
\* leaves the cursor at offset 0; on a descriptor that is closed or not open
\* for reading it returns -1
C32_WholeFileChecksum ==
    \A i \in 1..Len(unit.log) :
        unit.log[i].op = "sum" =>
            LET e == unit.log[i]
                readable == e.fd.open /\ e.fd.acc \in {O_RDONLY, O_RDWR}
            IN  /\ readable => (e.res = XorAll(0, e.file) /\ e.to = 0)
                /\ ~readable => e.res = -1
                /\ e.res # -1 => readable
C32_Witness ==
    \E i \in 1..Len(unit.log) :
        /\ unit.log[i].op = "sum" /\ unit.log[i].from = 2
        /\ unit.log[i].file = <<255, 1, 255>> /\ unit.log[i].res = 1
        /\ unit.log[i].to = 0

\* a log entry of a genChecksum call on a descriptor open for reading
SumOfReadable(e) == e.op = "sum" /\ e.fd.open /\ e.fd.acc \in {O_RDONLY, O_RDWR}

\* C33: two genChecksum calls on the same content return the same value
\* whatever their block sizes
C33_BlockSizeIndependent ==
    \A i \in 1..Len(unit.log), j \in 1..Len(unit.log) :
        (/\ SumOfReadable(unit.log[i]) /\ SumOfReadable(unit.log[j])
         /\ unit.log[i].file = unit.log[j].file)
            => unit.log[i].res = unit.log[j].res
C33_Witness ==
    \E i \in 1..Len(unit.log), j \in 1..Len(unit.log) :
        /\ SumOfReadable(unit.log[i]) /\ SumOfReadable(unit.log[j])
        /\ unit.log[i].file = <<255, 1, 255>> /\ unit.log[j].file = <<255, 1, 255>>
        /\ unit.log[i].block_size = 2 /\ unit.log[j].block_size = 4
        /\ unit.log[i].res = 1 /\ unit.log[j].res = 1

\* C34: a genChecksum that succeeds returns a value in 0..255, and one that
\* returns -1 has failed: its descriptor was closed or not open for reading
C34_ChecksumIsAByte ==
    \A i \in 1..Len(unit.log) :
        unit.log[i].op = "sum" =>
            /\ SumOfReadable(unit.log[i]) => unit.log[i].res \in 0..255
            /\ unit.log[i].res \notin 0..255 =>
                  (unit.log[i].res = -1 /\ ~SumOfReadable(unit.log[i]))
C34_Witness ==
    \E i \in 1..Len(unit.log) :
        /\ SumOfReadable(unit.log[i])
        /\ unit.log[i].file = <<255>> /\ unit.log[i].res = 255

\* ============================================ the descriptors of a worker
\* The descriptor table of the worker process as the calls of one client act
\* on it.  A worker inherits the standard streams, has closed the listening
\* socket and holds the connection; the handlers pass the descriptor number
\* the client sent to close, read and write as it is.

\* accept() in a server started with the standard streams and the listening
\* socket returns the next descriptor
connection_fd == 4
StdStreams == 0..2
MaxFdCalls == 3
ProcFds == 0..(connection_fd + MaxFdCalls)

\* the table after close(socket_fd) in the child
Desc0 ==
    [f \in ProcFds |-> IF f \in StdStreams THEN "stream"
                       ELSE IF f = connection_fd THEN "socket" ELSE "free"]

NoRequest == [op |-> "none", fd |-> 0]

InitFds ==
    /\ InitRPC
    /\ unit = [desc |-> Desc0, owned |-> {}, worker |-> "serving", stub |-> "idle",
               request |-> NoRequest, reply |-> FALSE, ret |-> 0, log |-> <<>>,
               steps |-> 0]

\* send_data_of_type on client_fd succeeds while client_fd is the connection
CanReply(desc) == desc[connection_fd] = "socket"

\* a stub sends its call and waits in recieve_result
fd_call ==
    /\ unit.stub = "idle"
    /\ unit.steps < MaxFdCalls
    /\ \E op \in {"open", "close", "read", "write"}, fd \in ProcFds :
          /\ op = "open" => fd = 0
          /\ unit' = [unit EXCEPT !.stub = "await", !.request = [op |-> op, fd |-> fd],
                                  !.reply = FALSE, !.steps = @ + 1]
    /\ UNCHANGED rpcvars

\* one call served: the table, the descriptors OPEN has returned and that are
\* still open, and the worker after it; a handler that returns -1 ends the
\* worker, which closes its descriptors and exits
FdStep(op, desc, owned, blocks, entry) ==
    /\ unit.worker = "serving"
    /\ unit.stub = "await"
    /\ unit.request.op = op
    /\ ~unit.reply
    /\ unit' = [unit EXCEPT
                  !.desc = desc, !.owned = owned,
                  !.worker = IF blocks THEN "blocked"
                             ELSE IF CanReply(desc) THEN "serving" ELSE "exited",
                  !.reply = ~blocks /\ CanReply(desc),
                  !.request = NoRequest,
                  !.ret = entry.res,
                  !.log = Append(@, entry @@ [replied |-> ~blocks /\ CanReply(desc)])]
    /\ UNCHANGED rpcvars

FdEntry(op, fd, res) ==
    [op |-> op, fd |-> fd, kind |-> unit.desc[fd], owned |-> fd \in unit.owned,
     res |-> res]

\* handle_open: open() returns the lowest free descriptor of the process
fd_OPEN ==
    \E fd \in ProcFds :
        /\ unit.desc[fd] = "free"
        /\ \A g \in ProcFds : g < fd => unit.desc[g] # "free"
        /\ FdStep("open", [unit.desc EXCEPT ![fd] = "file"], unit.owned \cup {fd}, FALSE,
                  FdEntry("open", fd, fd))

\* handle_close: close(file_fd), then the result on client_fd
fd_CLOSE ==
    \E fd \in {unit.request.fd} :
    \E res \in {IF unit.desc[fd] = "free" THEN -1 ELSE 0} :
        FdStep("close", [unit.desc EXCEPT ![fd] = "free"], unit.owned \ {fd}, FALSE,
               FdEntry("close", fd, res))

\* handle_write: write(file_fd, buffer, count) of one byte.  On the connection
\* the byte goes to the client ahead of the result; on a standard stream it
\* goes to whatever the server was started with, or fails if that is not
\* open for writing
fd_WRITE ==
    \E fd \in {unit.request.fd} :
    \E res \in CASE unit.desc[fd] = "free" -> {-1}
                 [] unit.desc[fd] = "stream" -> {-1, 1}
                 [] OTHER -> {1} :
        FdStep("write", unit.desc, unit.owned, FALSE, FdEntry("write", fd, res))

\* handle_read: read(file_fd, buffer, count) of one byte.  On the connection
\* nothing arrives, since the client has sent its request and waits for the
\* result, so the read blocks; on a standard stream it returns what the server
\* was started with gives, or blocks
fd_READ ==
    \E fd \in {unit.request.fd} :
    \E res \in CASE unit.desc[fd] = "free" -> {-1}
                 [] unit.desc[fd] = "stream" -> {-1, 0, 1}
                 [] unit.desc[fd] = "socket" -> {0}
                 [] OTHER -> {0, 1} :
    \E blocks \in IF unit.desc[fd] = "socket" THEN {TRUE}
                  ELSE IF unit.desc[fd] = "stream" /\ res = 0 THEN BOOLEAN
                  ELSE {FALSE} :
        FdStep("read", unit.desc, unit.owned, blocks, FdEntry("read", fd, res))

\* recieve_result returns: with the reply, or with -1 when the worker has
\* exited and the connection has ended
fd_return ==
    /\ unit.stub = "await"
    /\ unit.reply \/ unit.worker = "exited"
    /\ unit' = [unit EXCEPT !.stub = "idle", !.reply = FALSE, !.request = NoRequest,
                            !.ret = IF unit.reply THEN @ ELSE -1]
    /\ UNCHANGED rpcvars

\* the steps of the worker
fd_worker == fd_OPEN \/ fd_CLOSE \/ fd_WRITE \/ fd_READ

NextFds == fd_call \/ fd_OPEN \/ fd_CLOSE \/ fd_WRITE \/ fd_READ \/ fd_return

SpecFds == InitFds /\ [][NextFds]_vars

\* the worker and the stub are processes of their own, each scheduled while
\* it can take a step
SpecFdsFair == SpecFds /\ WF_vars(fd_worker) /\ WF_vars(fd_return)

\* C35: a CLOSE, READ or WRITE that names a descriptor no OPEN on this
\* connection has returned fails with -1 and acts on nothing, and the worker
\* still replies on the connection after every call
C35_OnlyOwnDescriptors ==
    \A i \in 1..Len(unit.log) :
        /\ (unit.log[i].op # "open" /\ ~unit.log[i].owned) => unit.log[i].res = -1
        /\ unit.log[i].replied

\* the stub waits for a frame from the worker while the worker waits for
\* bytes on the connection
MutualWait ==
    unit.stub = "await" /\ unit.worker = "blocked" /\ unit.log[Len(unit.log)].fd = connection_fd

\* C36: a stub that waits for its reply returns in the end, with the reply of
\* a worker that is alive or with -1 when the worker has exited, and the stub
\* and the worker never wait for each other
C36_EveryCallReturns ==
    /\ (unit.stub = "await") ~> (unit.stub = "idle")
    /\ [](~MutualWait)

\* C37: when the user program has ended reporting success, the local file
\* holds the bytes of the remote file and no others, whatever the local path
\* held before the run
C37_LocalEqualsRemote ==
    (unit.pc = "done" /\ unit.report = Report.success)
        => unit.lfiles[LocalPath] = files[PathData]

\* ================================================ the cache simulator
\* main of cache.c: the layers of direct-mapped write-back caches, their
\* counters, and the loop that takes one trace entry at a time from standard
\* input.  A trace entry is '@' and the eleven characters fgets reads after
\* it: the reference type, the access type, eight hexadecimal digits and the
\* end of the line.  An address is held as its eight hexadecimal digits.

INSTRUCTION_SIZE == 32
\* trace entries read in a run
MaxTrace == 4

\* the parameters of a run: lines of 128 words, layers of 1, 2 and 4 KB,
\* which have 2, 4 and 8 lines
LineWords == 128
LayerKB == <<1, 2, 4>>
CacheTypes == {"U", "I", "D"}

\* addresses 0x00000000 and 0x00000400 share line 0 of L1 and differ in L2;
\* 0x80000200 is in line 1 of every layer
HexAddresses == {<<0, 0, 0, 0, 0, 0, 0, 0>>, <<0, 0, 0, 0, 0, 4, 0, 0>>,
                 <<8, 0, 0, 0, 0, 2, 0, 0>>}
\* the entries of a trace, and two that are not of the format
TraceEntries ==
    [ref : {"I", "D"}, acc : {"R", "W"}, hex : HexAddresses]
        \cup {[ref |-> "X", acc |-> "R", hex |-> <<0, 0, 0, 0, 0, 0, 0, 0>>],
              [ref |-> "D", acc |-> "X", hex |-> <<0, 0, 0, 0, 0, 0, 0, 0>>]}

\* sscanf("%x") of the eight digits and hexToBinaryString of the value: the
\* 32 characters '0' or '1', most significant first
hexToBinaryString(hex) ==
    [i \in 1..INSTRUCTION_SIZE |-> BitOf(hex[((i - 1) \div 4) + 1], 3 - ((i - 1) % 4))]

RECURSIVE binaryStringToInt(_)
binaryStringToInt(binary) ==
    IF binary = <<>> THEN 0
    ELSE 2 * binaryStringToInt(SubSeq(binary, 1, Len(binary) - 1)) + binary[Len(binary)]

\* (size_t)log2(n) for n >= 1
RECURSIVE Log2(_)
Log2(n) == IF n <= 1 THEN 0 ELSE 1 + Log2(n \div 2)

\* setupCache: the layer with its counters at 0 and every line clean with
\* the empty tag
setupCache(layer, cache_size, line_size) ==
    [layer |-> layer, num_lines |-> cache_size \div line_size,
     lines |-> [i \in 0..((cache_size \div line_size) - 1) |-> [dirty |-> FALSE, tag |-> <<>>]],
     offset_size |-> Log2(line_size),
     index_size |-> Log2(cache_size \div line_size),
     tag_size |-> INSTRUCTION_SIZE - Log2(cache_size \div line_size) - Log2(line_size),
     requests |-> 0, hits |-> 0, misses |-> 0, read_to_write |-> 0, write_to_write |-> 0]

\* formatRequest and formatRequestAddressFields: the request for a layer, or
\* the error of an entry whose type characters are not of the format
formatRequest(cache, buffer) ==
    LET binary == hexToBinaryString(buffer.hex)
    IN  [code |-> IF buffer.ref \notin {"I", "D"} THEN "ERR_INVALID_REFERENCE_TYPE"
                  ELSE IF buffer.acc \notin {"R", "W"} THEN "ERR_INVALID_ACCESS_TYPE"
                  ELSE "ERR_SUCCESS",
         access_type |-> buffer.acc,
         tag |-> SubSeq(binary, 1, cache.tag_size),
         index |-> SubSeq(binary, cache.tag_size + 1, cache.tag_size + cache.index_size)]

\* processRequest that counts a miss on a line never loaded as nothing
processRequest_ColdMissUncounted(request, cache) ==
    LET index == binaryStringToInt(request.index)
        line == cache.lines[index]
        W == request.access_type = "W"
    IN  IF line.tag = request.tag
        THEN [hit |-> TRUE,
              cache |-> [cache EXCEPT !.hits = @ + 1,
                                      !.lines[index].dirty = IF W THEN TRUE ELSE @]]
        ELSE [hit |-> FALSE,
              cache |-> [cache EXCEPT
                            !.misses = IF line.tag = <<>> THEN @ ELSE @ + 1,
                            !.lines[index] = [dirty |-> W, tag |-> request.tag]]]

\* processRequest: a hit when the tag of the line is the tag of the request,
\* else a miss that loads the tag
processRequest(request, cache) ==
    LET index == binaryStringToInt(request.index)
        line == cache.lines[index]
        W == request.access_type = "W"
    IN  IF line.tag = request.tag
        THEN [hit |-> TRUE,
              cache |-> [cache EXCEPT !.hits = @ + 1,
                                      !.lines[index].dirty = IF W THEN TRUE ELSE @]]
        ELSE [hit |-> FALSE,
              cache |-> [cache EXCEPT
                            !.misses = @ + 1,
                            !.read_to_write = IF line.dirty /\ ~W THEN @ + 1 ELSE @,
                            !.write_to_write = IF line.dirty /\ W THEN @ + 1 ELSE @,
                            !.lines[index] = [dirty |-> W, tag |-> request.tag]]]

\* the loop over the layers that goes on to the next layer after a hit
RECURSIVE TryLayers_NoBreak(_, _, _, _)
TryLayers_NoBreak(cache, cache_layers, i, buffer) ==
    IF i > cache_layers
    THEN [code |-> "ERR_SUCCESS", cache |-> cache]
    ELSE LET counted == [cache EXCEPT ![i].requests = @ + 1]
             request == formatRequest(cache[i], buffer)
             p == processRequest(request, counted[i])
         IN  IF request.code # "ERR_SUCCESS"
             THEN [code |-> request.code, cache |-> counted]
             ELSE TryLayers_NoBreak([counted EXCEPT ![i] = p.cache], cache_layers,
                                    i + 1, buffer)

\* main: the loop over the layers from layer i for one entry: the layer
\* counts the request, and the loop ends at the first hit or with ERR_CHECK
RECURSIVE TryLayers(_, _, _, _)
TryLayers(cache, cache_layers, i, buffer) ==
    IF i > cache_layers
    THEN [code |-> "ERR_SUCCESS", cache |-> cache]
    ELSE LET counted == [cache EXCEPT ![i].requests = @ + 1]
             request == formatRequest(cache[i], buffer)
             p == processRequest(request, counted[i])
         IN  IF request.code # "ERR_SUCCESS"
             THEN [code |-> request.code, cache |-> counted]
             ELSE IF p.hit
             THEN [code |-> "ERR_SUCCESS", cache |-> [counted EXCEPT ![i] = p.cache]]
             ELSE TryLayers([counted EXCEPT ![i] = p.cache], cache_layers, i + 1, buffer)

\* the entry is one the configured cache type takes
Relevant(cache_type, buffer) == cache_type = "U" \/ buffer.ref = cache_type

\* main up to the loop, for parameters retrieveParameters and setupCache
\* accept, built for a platform whose char is signed or unsigned; read and
\* matching count the entries read and those of the configured type
InitCache ==
    /\ InitRPC
    /\ \E cache_type \in CacheTypes, cache_layers \in 1..3, signed \in BOOLEAN :
          unit = [pc |-> "loop", cache_type |-> cache_type, cache_layers |-> cache_layers,
                  signed |-> signed,
                  cache |-> [i \in 1..cache_layers |->
                                setupCache(i, LayerKB[i] * 1024, LineWords * 4)],
                  read |-> 0, matching |-> 0, code |-> "ERR_SUCCESS"]

\* an entry of the other reference type is skipped
cache_skip ==
    /\ unit.pc = "loop" /\ unit.read < MaxTrace
    /\ \E buffer \in TraceEntries :
          /\ ~Relevant(unit.cache_type, buffer)
          /\ unit' = [unit EXCEPT !.read = @ + 1]
    /\ UNCHANGED rpcvars

\* an entry goes through the layers
cache_request ==
    /\ unit.pc = "loop" /\ unit.read < MaxTrace
    /\ \E buffer \in TraceEntries :
          /\ Relevant(unit.cache_type, buffer)
          /\ \E t \in {TryLayers(unit.cache, unit.cache_layers, 1, buffer)} :
                /\ t.code = "ERR_SUCCESS"
                /\ unit' = [unit EXCEPT !.read = @ + 1, !.matching = @ + 1,
                                        !.cache = t.cache]
    /\ UNCHANGED rpcvars

\* an entry that formatRequest rejects: ERR_CHECK returns from main with the
\* error printed and no results
cache_rejected ==
    /\ unit.pc = "loop" /\ unit.read < MaxTrace
    /\ \E buffer \in TraceEntries :
          /\ Relevant(unit.cache_type, buffer)
          /\ \E t \in {TryLayers(unit.cache, unit.cache_layers, 1, buffer)} :
                /\ t.code # "ERR_SUCCESS"
                /\ unit' = [unit EXCEPT !.pc = "failed", !.read = @ + 1,
                                        !.matching = @ + 1,
                                        !.cache = t.cache, !.code = t.code]
    /\ UNCHANGED rpcvars

\* the end of the input: getchar() returns EOF into a char, which compares
\* equal to EOF where char is signed; where it is unsigned the loop goes on
\* reading the end of the input
cache_eof ==
    /\ unit.pc = "loop"
    /\ unit' = [unit EXCEPT !.pc = IF unit.signed THEN "printed" ELSE "loop"]
    /\ UNCHANGED rpcvars

NextCache == cache_skip \/ cache_request \/ cache_rejected \/ cache_eof

SpecCache == InitCache /\ [][NextCache]_vars

\* the simulator is between two entries or has printed its results
AfterTrace == unit.pc \in {"loop", "printed"}

C39_RequestsFollowMisses ==
    AfterTrace =>
        /\ \A i \in 1..(unit.cache_layers - 1) :
              unit.cache[i + 1].requests = unit.cache[i].misses
        /\ unit.cache[1].requests = unit.matching
C39_Witness ==
    /\ unit.pc = "printed" /\ unit.cache_layers = 3 /\ unit.cache_type = "D"
    /\ unit.read = 4 /\ unit.matching = 3
    /\ unit.cache[1].misses = 3 /\ unit.cache[2].requests = 3
    /\ unit.cache[2].hits = 1 /\ unit.cache[3].requests = 2
====
